---------------------------- MODULE Spec2Model ----------------------------
(***************************************************************************)
(* jpeg-to-raw-matcher: the RAW file index (RawFileIndex), its             *)
(* persistence (IndexCache), the index builder (Indexer) and the           *)
(* matcher (Matcher), modelled from src/src/indexer.py,                    *)
(* src/src/matcher.py, src/src/exif_reader.py and                          *)
(* src/src/file_scanner.py.                                                *)
(*                                                                         *)
(* Spec      : a RawFileIndex under add / remove / from_dict(to_dict),     *)
(*             and Matcher.find_matches run against it.                    *)
(* SpecBuild : Indexer.build_index against a changing source directory,    *)
(*             with the cache file and the manifest on disk.               *)
(* SpecConcurrent : two processes that save the indexes of two directories *)
(*             into one cache directory, step by step.                     *)
(***************************************************************************)
EXTENDS Integers, Sequences, FiniteSets, TLC

VARIABLES
    index,      \* Spec: the RawFileIndex object under test
    added,      \* Spec: history - the live records in the order add() received them
    pending,    \* Spec: history - paths added and not yet passed to remove()
    lastOp,     \* Spec: history - the call that has just returned, with its result
    disk,       \* SpecBuild: source directory, path -> NoFile or [size, exif]
    cache_file, \* SpecBuild: content of the directory's cache file
    manifest,   \* SpecBuild: the directory's entry of global_index.json
    exif_cache, \* SpecBuild: ExifReader.cache of the running Indexer
    call,       \* SpecBuild: the build_index call in progress (position and locals)
    clock,      \* SpecBuild: datetime.now(), a counter of saves
    fsOps,      \* SpecBuild: history - number of file system changes so far
    store,      \* SpecStore: the cache directory, cache file path -> content
    storeOp,    \* SpecStore: history - the IndexCache call made last, with its result
    saved,      \* SpecStore: history - directory -> its last save, while not removed
    saving,     \* SpecConcurrent: process -> its save in progress (position and locals)
    sources,    \* SpecCopy: the RAW files the matches name, path -> NoFile or content
    target,     \* SpecCopy: the target directory, file name -> content
    run         \* SpecCopy: history - the call made last, with its arguments and result

vars == <<index, added, pending, lastOp, disk, cache_file, manifest,
          exif_cache, call, clock, fsOps, store, storeOp, saved, saving,
          sources, target, run>>

indexVars == <<index, added, pending, lastOp>>
buildVars == <<disk, cache_file, manifest, exif_cache, call, clock, fsOps>>
storeVars == <<store, storeOp, saved, saving>>
copyVars == <<sources, target, run>>

-----------------------------------------------------------------------------
(* Bounds of the model *)

MaxAdds == 3
MaxJpegs == 1
MaxBuilds == 2
MaxFsOps == 2
MaxSaves == 2
MaxIndexed == 2
MaxJpegList == 2
MaxBatch == 2

-----------------------------------------------------------------------------
(* Values *)

\* Python's None (and JSON's null).
NoneVal == [none |-> TRUE]

\* pathlib.Path objects and their str(); a JSON string value.
Path(s) == [fspath |-> s]
Str(p) == p.fspath
JsonStr(s) == [str |-> s]

\* Capture timestamps (datetime objects). DT2 carries microseconds, which
\* isoformat() prints only when they are not zero.
DT1 == [date |-> "2024-01-01", time |-> "10:00:00", micro |-> 0]
DT2 == [date |-> "2024-01-02", time |-> "10:00:00", micro |-> 500]
Timestamps == {DT1, DT2}

\* Paths of RAW files handed to the index, and of JPEG files handed to the matcher.
RawPaths == {Path("/src/IMG.CR2"), Path("/src/sub/img.NEF")}
JpegPaths == {Path("/tgt/IMG.JPG"), Path("/tgt/img.jpeg"), Path("/tgt/Dsc.JPG"),
              Path("/tgt/ZZZ.jpg")}
FileSizes == {7}

\* pathlib: Path.stem of the paths of the model.
PathStem(p) ==
    CASE Str(p) = "/src/IMG.CR2" -> "IMG"
      [] Str(p) = "/src/sub/img.NEF" -> "img"
      [] Str(p) = "/src/IMG.Cr2" -> "IMG"
      [] Str(p) = "/tgt/IMG.JPG" -> "IMG"
      [] Str(p) = "/tgt/img.jpeg" -> "img"
      [] Str(p) = "/tgt/Dsc.JPG" -> "Dsc"
      [] Str(p) = "/tgt/ZZZ.jpg" -> "ZZZ"
      [] Str(p) = "/src/ZZZ.CR2" -> "ZZZ"
      [] Str(p) = "/other/IMG.CR2" -> "IMG"
      [] OTHER -> Str(p)

\* str.lower() on the stems and basenames of the model.
Lower(s) ==
    CASE s = "IMG" -> "img"
      [] s = "Dsc" -> "dsc"
      [] s = "ZZZ" -> "zzz"
      [] OTHER -> s

\* FileScanner.get_basename: file_path.stem.lower()
get_basename(p) == Lower(PathStem(p))

\* RawFileInfo objects the callers of add() may pass: every timestamp under
\* either path for one basename, and two records of a second basename.
RawFileInfo ==
    [path : RawPaths, basename : {"img"},
     capture_datetime : Timestamps \cup {NoneVal}, file_size : FileSizes]
    \cup [path : {Path("/src/sub/img.NEF")}, basename : {"dsc"},
          capture_datetime : {DT1, NoneVal}, file_size : {9}]

-----------------------------------------------------------------------------
(* Python dict of lists, in insertion order: a sequence of [key, infos] *)

Range(seq) == {seq[i] : i \in 1..Len(seq)}
Count(seq, x) == Cardinality({i \in 1..Len(seq) : seq[i] = x})

RECURSIVE SumLen(_)
SumLen(d) == IF d = <<>> THEN 0 ELSE Len(Head(d).infos) + SumLen(Tail(d))

RECURSIVE Flatten(_)
Flatten(d) == IF d = <<>> THEN <<>> ELSE Head(d).infos \o Flatten(Tail(d))

DictKeys(d) == {d[i].key : i \in 1..Len(d)}

DictGet(d, k, default) ==
    IF k \in DictKeys(d)
    THEN d[CHOOSE i \in 1..Len(d) : d[i].key = k].infos
    ELSE default

\* if key not in d: d[key] = [] ; d[key].append(info)
DictAppend(d, k, info) ==
    IF k \in DictKeys(d)
    THEN [i \in 1..Len(d) |->
            IF d[i].key = k THEN [d[i] EXCEPT !.infos = Append(@, info)] ELSE d[i]]
    ELSE Append(d, [key |-> k, infos |-> <<info>>])

\* infos[:] = [info for info in infos if info.path != file_path]
KeepOtherPaths(infos, file_path) == SelectSeq(infos, LAMBDA info : info.path # file_path)

\* Mutant of FilterEntry: the key of a list that became empty is kept.
FilterEntryKeepKey(e, file_path) ==
    <<[e EXCEPT !.infos = KeepOtherPaths(e.infos, file_path)]>>

\* Mutant of FilterEntry: only the first record of the path is dropped (list.remove).
FilterEntryFirstOnly(e, file_path) ==
    LET hits == {i \in 1..Len(e.infos) : e.infos[i].path = file_path}
        first == CHOOSE i \in hits : \A j \in hits : i <= j
        kept == IF hits = {} THEN e.infos
                ELSE SubSeq(e.infos, 1, first - 1) \o SubSeq(e.infos, first + 1, Len(e.infos))
    IN  IF kept = <<>> THEN <<>> ELSE <<[e EXCEPT !.infos = kept]>>

\* One round of the loops of remove(): the list is filtered in place and the
\* key deleted when the list shrank to nothing. Zero or one entry.
FilterEntry(e, file_path) ==
    LET kept == KeepOtherPaths(e.infos, file_path)
    IN  IF Len(kept) < Len(e.infos) /\ kept = <<>>
        THEN <<>>
        ELSE <<[e EXCEPT !.infos = kept]>>

RECURSIVE DictRemovePath(_, _)
DictRemovePath(d, file_path) ==
    IF d = <<>> THEN <<>>
    ELSE FilterEntry(Head(d), file_path) \o DictRemovePath(Tail(d), file_path)

-----------------------------------------------------------------------------
(* RawFileIndex *)

\* RawFileIndex.__init__
EmptyIndex ==
    [by_basename |-> <<>>, by_datetime |-> <<>>,
     source_directory |-> NoneVal, last_updated |-> NoneVal, file_count |-> 0]

\* RawFileIndex.add
IndexAdd(idx, info) ==
    [idx EXCEPT
        !.by_basename = DictAppend(@, info.basename, info),
        !.by_datetime = IF info.capture_datetime # NoneVal
                        THEN DictAppend(@, info.capture_datetime, info)
                        ELSE @,
        !.file_count = @ + 1]

\* Mutant of IndexRemove: nothing is removed.
IndexRemoveNothing(idx, file_path) == idx

\* RawFileIndex.remove: the index afterwards.
IndexRemove(idx, file_path) ==
    LET bb == DictRemovePath(idx.by_basename, file_path)
        bd == DictRemovePath(idx.by_datetime, file_path)
        removed == SumLen(bb) < SumLen(idx.by_basename)
                   \/ SumLen(bd) < SumLen(idx.by_datetime)
    IN  [idx EXCEPT
            !.by_basename = bb,
            !.by_datetime = bd,
            !.file_count = IF removed THEN @ - 1 ELSE @]

\* RawFileIndex.remove: its return value.
IndexRemoveResult(idx, file_path) ==
    SumLen(DictRemovePath(idx.by_basename, file_path)) < SumLen(idx.by_basename)
    \/ SumLen(DictRemovePath(idx.by_datetime, file_path)) < SumLen(idx.by_datetime)

\* RawFileIndex.find_by_basename
find_by_basename(idx, basename) == DictGet(idx.by_basename, Lower(basename), <<>>)

\* RawFileIndex.get_all_files
get_all_files(idx) == Flatten(idx.by_basename)

-----------------------------------------------------------------------------
(* Serialization: RawFileIndex.to_dict / from_dict *)

\* datetime.isoformat(): the text, as its parts; the fraction only when not zero.
isoformat(dt) ==
    IF dt.micro = 0
    THEN <<dt.date, "T", dt.time>>
    ELSE <<dt.date, "T", dt.time, ".", dt.micro>>

\* datetime.fromisoformat()
fromisoformat(text) ==
    [date |-> text[1], time |-> text[3],
     micro |-> IF Len(text) >= 5 THEN text[5] ELSE 0]

\* to_dict: the entry of one record in 'files'.
FileData(info) ==
    [path |-> JsonStr(Str(info.path)),
     basename |-> info.basename,
     capture_datetime |-> IF info.capture_datetime # NoneVal
                          THEN JsonStr(isoformat(info.capture_datetime))
                          ELSE NoneVal,
     file_size |-> info.file_size]

\* RawFileIndex.to_dict
to_dict(idx) ==
    LET all == get_all_files(idx)
    IN  [source_directory |-> IF idx.source_directory # NoneVal
                              THEN JsonStr(Str(idx.source_directory))
                              ELSE NoneVal,
         last_updated |-> IF idx.last_updated # NoneVal
                          THEN JsonStr(isoformat(idx.last_updated))
                          ELSE NoneVal,
         file_count |-> idx.file_count,
         files |-> [i \in 1..Len(all) |-> FileData(all[i])]]

\* from_dict: the RawFileInfo restored from one entry of 'files'.
InfoOfFileData(file_data) ==
    [path |-> Path(file_data.path.str),
     basename |-> file_data.basename,
     capture_datetime |-> IF file_data.capture_datetime # NoneVal
                          THEN fromisoformat(file_data.capture_datetime.str)
                          ELSE NoneVal,
     file_size |-> file_data.file_size]

RECURSIVE AddAll(_, _)
\* for info in infos: index.add(info)
AddAll(idx, infos) ==
    IF infos = <<>> THEN idx
    ELSE AddAll(IndexAdd(idx, Head(infos)), Tail(infos))

\* Mutant of from_dict: the records are added last first.
from_dict_reversed(data) ==
    LET start == [EmptyIndex EXCEPT
                    !.source_directory = IF data.source_directory # NoneVal
                                         THEN Path(data.source_directory.str)
                                         ELSE NoneVal,
                    !.last_updated = IF data.last_updated # NoneVal
                                     THEN fromisoformat(data.last_updated.str)
                                     ELSE NoneVal]
        n == Len(data.files)
        infos == [i \in 1..n |-> InfoOfFileData(data.files[n + 1 - i])]
    IN  AddAll(start, infos)

\* RawFileIndex.from_dict
from_dict(data) ==
    LET start == [EmptyIndex EXCEPT
                    !.source_directory = IF data.source_directory # NoneVal
                                         THEN Path(data.source_directory.str)
                                         ELSE NoneVal,
                    !.last_updated = IF data.last_updated # NoneVal
                                     THEN fromisoformat(data.last_updated.str)
                                     ELSE NoneVal]
        infos == [i \in 1..Len(data.files) |-> InfoOfFileData(data.files[i])]
    IN  AddAll(start, infos)

-----------------------------------------------------------------------------
(* ExifReader *)

\* What is on disk at a path: nothing, a file, or a file whose stat() raises.
NoFile == [nofile |-> TRUE]
OsErrorFile == [oserror |-> TRUE]

\* exists() or stat() raises OSError for the file when the reader looks at it.
StatRaises(file) == "oserror" \in DOMAIN file

\* ExifReader.cache is a dict: a function on the paths read so far.
EmptyCache == [p \in {} |-> NoneVal]
CachePut(cache, p, v) == [q \in DOMAIN cache \cup {p} |-> IF q = p THEN v ELSE cache[q]]

\* ExifReader.read_capture_datetime: the value returned (None when it raises),
\* whether it raised ExifReadError, and the cache afterwards. file.exif is what
\* _extract_datetime_with_exiftool yields for the file: a datetime or None.
read_capture_datetime(cache, file_path, file) ==
    IF file_path \in DOMAIN cache
    THEN [value |-> cache[file_path], raised |-> FALSE, cache |-> cache]
    ELSE IF StatRaises(file)
    THEN [value |-> NoneVal, raised |-> TRUE, cache |-> CachePut(cache, file_path, NoneVal)]
    ELSE IF file = NoFile
    THEN [value |-> NoneVal, raised |-> FALSE, cache |-> CachePut(cache, file_path, NoneVal)]
    ELSE IF file.size = 0
    THEN [value |-> NoneVal, raised |-> FALSE, cache |-> CachePut(cache, file_path, NoneVal)]
    ELSE [value |-> file.exif, raised |-> FALSE, cache |-> CachePut(cache, file_path, file.exif)]

-----------------------------------------------------------------------------
(* Matcher *)

\* The JPEG files of the target directory.
JpegDisk(p) ==
    CASE Str(p) = "/tgt/IMG.JPG" -> [size |-> 5, exif |-> DT1]
      [] Str(p) = "/tgt/img.jpeg" -> [size |-> 5, exif |-> NoneVal]
      [] Str(p) = "/tgt/Dsc.JPG" -> OsErrorFile
      [] Str(p) = "/tgt/ZZZ.jpg" -> [size |-> 5, exif |-> DT2]
      [] OTHER -> NoFile

\* Mutant of create_jpeg_info: a read that raises leaves a default timestamp.
create_jpeg_info_error_gives_timestamp(cache, jpeg_path) ==
    LET rd == read_capture_datetime(cache, jpeg_path, JpegDisk(jpeg_path))
    IN  [info |-> [path |-> jpeg_path,
                   basename |-> get_basename(jpeg_path),
                   capture_datetime |-> IF rd.raised THEN DT1 ELSE rd.value],
         cache |-> rd.cache]

\* Matcher._create_jpeg_info: the JpegFileInfo and the reader's cache afterwards.
\* An ExifReadError is caught and leaves capture_datetime None.
create_jpeg_info(cache, jpeg_path) ==
    LET rd == read_capture_datetime(cache, jpeg_path, JpegDisk(jpeg_path))
    IN  [info |-> [path |-> jpeg_path,
                   basename |-> get_basename(jpeg_path),
                   capture_datetime |-> IF rd.raised THEN NoneVal ELSE rd.value],
         cache |-> rd.cache]

MatchResult(jpeg_info, raw_info, method) ==
    [jpeg_path |-> jpeg_info.path, raw_path |-> raw_info.path, match_method |-> method]

\* Mutant of find_matching_raw: without a timestamp match it falls back to the
\* first record of the basename.
find_matching_raw_fallback(idx, jpeg_info) ==
    LET basename_matches == find_by_basename(idx, jpeg_info.basename)
        datetime_matches ==
            SelectSeq(basename_matches,
                      LAMBDA raw_info : raw_info.capture_datetime = jpeg_info.capture_datetime)
    IN  IF basename_matches = <<>> THEN NoneVal
        ELSE IF jpeg_info.capture_datetime # NoneVal /\ datetime_matches # <<>>
        THEN MatchResult(jpeg_info, Head(datetime_matches), "basename_and_datetime")
        ELSE MatchResult(jpeg_info, Head(basename_matches), "basename_only")

\* Mutant of find_matching_raw: the last candidate is selected, not the first.
find_matching_raw_last(idx, jpeg_info) ==
    LET basename_matches == find_by_basename(idx, jpeg_info.basename)
        datetime_matches ==
            SelectSeq(basename_matches,
                      LAMBDA raw_info : raw_info.capture_datetime = jpeg_info.capture_datetime)
    IN  IF basename_matches = <<>> THEN NoneVal
        ELSE IF jpeg_info.capture_datetime # NoneVal
        THEN IF datetime_matches # <<>>
             THEN MatchResult(jpeg_info, datetime_matches[Len(datetime_matches)],
                              "basename_and_datetime")
             ELSE NoneVal
        ELSE MatchResult(jpeg_info, basename_matches[Len(basename_matches)],
                         "basename_only")

\* Mutant of find_matching_raw: once a timestamp match exists, the first record
\* of the basename is selected, whatever its timestamp.
find_matching_raw_first_basename(idx, jpeg_info) ==
    LET basename_matches == find_by_basename(idx, jpeg_info.basename)
        datetime_matches ==
            SelectSeq(basename_matches,
                      LAMBDA raw_info : raw_info.capture_datetime = jpeg_info.capture_datetime)
    IN  IF basename_matches = <<>> THEN NoneVal
        ELSE IF jpeg_info.capture_datetime # NoneVal
        THEN IF datetime_matches # <<>>
             THEN MatchResult(jpeg_info, Head(basename_matches), "basename_and_datetime")
             ELSE NoneVal
        ELSE MatchResult(jpeg_info, Head(basename_matches), "basename_only")

\* Matcher._find_matching_raw: a MatchResult or None.
find_matching_raw(idx, jpeg_info) ==
    LET basename_matches == find_by_basename(idx, jpeg_info.basename)
        datetime_matches ==
            SelectSeq(basename_matches,
                      LAMBDA raw_info :
                         /\ raw_info.capture_datetime # NoneVal
                         /\ raw_info.capture_datetime = jpeg_info.capture_datetime)
    IN  IF basename_matches = <<>> THEN NoneVal
        ELSE IF jpeg_info.capture_datetime # NoneVal
        THEN IF datetime_matches # <<>>
             THEN MatchResult(jpeg_info, Head(datetime_matches), "basename_and_datetime")
             ELSE NoneVal
        ELSE MatchResult(jpeg_info, Head(basename_matches), "basename_only")

RECURSIVE find_matches_from(_, _, _)
\* The loop of find_matches, with the reader's cache carried from JPEG to JPEG.
find_matches_from(idx, cache, jpeg_files) ==
    IF jpeg_files = <<>> THEN <<>>
    ELSE LET made == create_jpeg_info(cache, Head(jpeg_files))
             match_result == find_matching_raw(idx, made.info)
             rest == find_matches_from(idx, made.cache, Tail(jpeg_files))
         IN  IF match_result # NoneVal THEN <<match_result>> \o rest ELSE rest

\* Mutant of find_matches: the results are returned last match first.
find_matches_last_first(idx, jpeg_files) ==
    LET matches == find_matches_from(idx, EmptyCache, jpeg_files)
    IN  [i \in 1..Len(matches) |-> matches[Len(matches) + 1 - i]]

\* Matcher.find_matches, with a reader that has read nothing yet.
find_matches(idx, jpeg_files) == find_matches_from(idx, EmptyCache, jpeg_files)

-----------------------------------------------------------------------------
(* FileScanner and the source directory *)

\* The source directory and the files that may lie in it, in sorted() order.
SrcDir == Path("/src")
SortedSrcPaths == <<Path("/src/IMG.CR2"), Path("/src/IMG.Cr2"), Path("/src/sub/img.NEF")>>
SrcPaths == {SortedSrcPaths[i] : i \in 1..Len(SortedSrcPaths)}

\* pathlib: Path.suffix, and whether the file lies below a subdirectory.
PathSuffix(p) ==
    CASE Str(p) = "/src/IMG.CR2" -> ".CR2"
      [] Str(p) = "/src/IMG.Cr2" -> ".Cr2"
      [] Str(p) = "/src/sub/img.NEF" -> ".NEF"
      [] Str(p) = "/src/ZZZ.CR2" -> ".CR2"
      [] Str(p) = "/other/IMG.CR2" -> ".CR2"
      [] Str(p) = "/tgt/IMG.JPG" -> ".JPG"
      [] Str(p) = "/tgt/img.jpeg" -> ".jpeg"
      [] Str(p) = "/tgt/Dsc.JPG" -> ".JPG"
      [] Str(p) = "/tgt/ZZZ.jpg" -> ".jpg"
      [] OTHER -> ""
PathInSubdir(p) == Str(p) = "/src/sub/img.NEF"

\* FileScanner.RAW_EXTENSIONS
RAW_EXTENSIONS ==
    {".cr2", ".CR2", ".cr3", ".CR3", ".nef", ".NEF", ".arw", ".ARW",
     ".raf", ".RAF", ".orf", ".ORF", ".rw2", ".RW2", ".pef", ".PEF",
     ".dng", ".DNG", ".rwl", ".RWL", ".3fr", ".3FR", ".iiq", ".IIQ"}

\* FileScanner.JPEG_EXTENSIONS
JPEG_EXTENSIONS == {".jpg", ".JPG", ".jpeg", ".JPEG"}

\* FileScanner.is_raw_file and is_jpeg_file, on a suffix: suffix in the set.
is_raw_suffix(suffix) == suffix \in RAW_EXTENSIONS
is_jpeg_suffix(suffix) == suffix \in JPEG_EXTENSIONS

\* What a file of the source directory may hold: its size and the capture
\* timestamp exiftool finds in it.
FileVersions ==
    {[size |-> 7, exif |-> DT1], [size |-> 7, exif |-> DT2],
     [size |-> 9, exif |-> DT1], [size |-> 0, exif |-> DT1]}
FirstVersion == [size |-> 7, exif |-> DT1]

\* Files that fail: exiftool finds no timestamp, fails or times out (None);
\* the reader's own exists()/stat() raises after the indexer's stat()
\* succeeded; the file was listed by the scan and is gone when it is processed.
UnreadableVersion == [size |-> 7, exif |-> NoneVal]
RaisingVersion == [size |-> 7, oserror |-> TRUE]
Vanished == [vanished |-> TRUE]
FaultyVersions == {UnreadableVersion, RaisingVersion, Vanished}

\* What lies at the path of the source directory itself: a directory, a
\* directory without read permission, a regular file, or nothing (NoFile).
Directory == [dir |-> "ok"]
UnreadableDirectory == [dir |-> "unreadable"]
DirEntries == {Directory, UnreadableDirectory, FirstVersion, NoFile}

\* The file system below and at the source directory.
DiskOf(dir_entry, files) ==
    [p \in SrcPaths \cup {SrcDir} |-> IF p = SrcDir THEN dir_entry ELSE files[p]]

\* Mutant of validate_directory: the read permission is not checked.
validate_directory_no_access_check(d, directory) ==
    IF d[directory] = NoFile
    THEN [type |-> "ValidationError", message |-> "does not exist"]
    ELSE IF "dir" \notin DOMAIN d[directory]
    THEN [type |-> "ValidationError", message |-> "not a directory"]
    ELSE NoneVal

\* PathValidator.validate_directory: the ValidationError raised, or None.
validate_directory(d, directory) ==
    IF d[directory] = NoFile
    THEN [type |-> "ValidationError", message |-> "does not exist"]
    ELSE IF "dir" \notin DOMAIN d[directory]
    THEN [type |-> "ValidationError", message |-> "not a directory"]
    ELSE IF d[directory] = UnreadableDirectory
    THEN [type |-> "ValidationError", message |-> "no read permission"]
    ELSE NoneVal

\* FileScanner.scan_raw_files once validate_directory has passed: rglob('*')
\* or iterdir(), the files with a RAW suffix, sorted.
scan_raw_files(d, recursive) ==
    SelectSeq(SortedSrcPaths,
              LAMBDA p : /\ d[p] # NoFile
                         /\ PathSuffix(p) \in RAW_EXTENSIONS
                         /\ (recursive \/ ~PathInSubdir(p)))

-----------------------------------------------------------------------------
(* IndexCache *)

\* A cache file that json.load() cannot parse.
CorruptFile == [corrupt |-> TRUE]

\* global_index.json as a dict; a missing file reads as {}.
EmptyManifest == [k \in {} |-> NoneVal]

\* Mutant of load_directory_index: an unparseable file reads as an empty index.
load_directory_index_corrupt_is_empty(file) ==
    IF file = NoFile THEN NoneVal
    ELSE IF file = CorruptFile THEN EmptyIndex
    ELSE from_dict(file)

\* IndexCache.load_directory_index: None when the file is missing or unreadable.
load_directory_index(file) ==
    IF file = NoFile THEN NoneVal
    ELSE IF file = CorruptFile THEN NoneVal
    ELSE from_dict(file)

\* datetime.now() at the n-th save.
Now(n) == [date |-> "2024-03-01", time |-> n, micro |-> 0]

\* save_directory_index: the index object after source_directory and
\* last_updated have been set on it.
StampedFor(idx, source_dir, now) ==
    [idx EXCEPT !.source_directory = source_dir, !.last_updated = now]
Stamped(idx, now) == StampedFor(idx, SrcDir, now)

\* Directories as a caller may name them. The working directory is "/" and
\* /link is a symbolic link to /src.
DirRefs == {"/src", "/src/", "src", "/link", "/other"}

\* Path(text): pathlib drops a trailing slash.
PathOfStr(text) == IF text = "/src/" THEN Path("/src") ELSE Path(text)

\* Mutant of resolve: symbolic links are not followed.
resolve_no_links(p) ==
    CASE Str(p) = "src" -> Path("/src")
      [] OTHER -> p

\* Path.resolve(): absolute, symbolic links followed.
resolve(p) ==
    CASE Str(p) = "src" -> Path("/src")
      [] Str(p) = "/link" -> Path("/src")
      [] OTHER -> p

\* hashlib.md5(text.encode()).hexdigest(): different texts, different digests.
md5(text) == [md5 |-> text]

\* IndexCache.get_cache_path
get_cache_path(source_dir) ==
    [cache_dir |-> "~/.raw_jpeg_matcher/cache",
     name |-> <<"index_", md5(Str(resolve(source_dir))), ".json">>]

\* A dict or a directory listing with one key set, and with one key deleted.
Put(f, k, v) == [x \in DOMAIN f \cup {k} |-> IF x = k THEN v ELSE f[x]]

\* Mutant of Delete: nothing is deleted.
DeleteNothing(f, k) == f

Delete(f, k) == [x \in DOMAIN f \ {k} |-> f[x]]

\* The content of the file at a path of the cache directory.
FileAt(files, path) == IF path \in DOMAIN files THEN files[path] ELSE NoFile

\* IndexCache.load_global_index: {} when the file is missing or unparseable.
load_global_index(file) ==
    IF file = NoFile \/ file = CorruptFile THEN EmptyManifest ELSE file

\* Mutant of WrittenCacheFile: the new content never replaces the cache file.
WrittenCacheFileKeepsOld(file, idx) == file

\* save_directory_index: json.dump(index.to_dict(), f) over the cache file.
WrittenCacheFile(file, idx) == to_dict(idx)

\* IndexCache._update_global_index: the manifest read, with the entry of the
\* resolved directory set.
global_index_with(global_index, source_dir, idx) ==
    Put(global_index, Str(resolve(source_dir)),
        [last_updated |-> IF idx.last_updated # NoneVal
                          THEN JsonStr(isoformat(idx.last_updated))
                          ELSE NoneVal,
         file_count |-> idx.file_count,
         cache_file |-> JsonStr(get_cache_path(source_dir))])
update_global_index(global_index, idx) == global_index_with(global_index, SrcDir, idx)

\* datetime order of the times of saves, which all fall on one day.
Newer(a, b) == a.time > b.time

\* The entry list_indexed_directories makes of a manifest entry.
DirectoryEntry(global_index, dir_path) ==
    [path |-> Path(dir_path),
     last_updated |-> fromisoformat(global_index[dir_path].last_updated.str),
     file_count |-> global_index[dir_path].file_count]

\* IndexCache.list_indexed_directories on the manifest read: the entries that
\* have a last_updated, newest first.
list_indexed_directories(global_index) ==
    LET listed == {k \in DOMAIN global_index : global_index[k].last_updated # NoneVal}
        entries == {DirectoryEntry(global_index, k) : k \in listed}
    IN  CHOOSE directories \in [1..Cardinality(entries) -> entries] :
          /\ Range(directories) = entries
          /\ \A i, j \in 1..Cardinality(entries) :
                i < j => ~Newer(directories[j].last_updated, directories[i].last_updated)

-----------------------------------------------------------------------------
(* Indexer *)

\* Mutant of process_single_file: a file whose timestamp read raises is
\* given up like one whose stat() raises.
process_single_file_read_error_skips(cache, file_path, file) ==
    IF file = Vanished THEN [info |-> NoneVal, cache |-> cache]
    ELSE LET rd == read_capture_datetime(cache, file_path, file)
         IN  [info |-> IF rd.raised THEN NoneVal
                       ELSE [path |-> file_path,
                             basename |-> get_basename(file_path),
                             capture_datetime |-> rd.value,
                             file_size |-> file.size],
              cache |-> rd.cache]

\* Indexer._process_single_file: stat(), the basename, and the capture
\* timestamp (None when the reader raises). None when stat() raises.
process_single_file(cache, file_path, file) ==
    IF file = Vanished THEN [info |-> NoneVal, cache |-> cache]
    ELSE LET rd == read_capture_datetime(cache, file_path, file)
         IN  [info |-> [path |-> file_path,
                        basename |-> get_basename(file_path),
                        capture_datetime |-> IF rd.raised THEN NoneVal ELSE rd.value,
                        file_size |-> file.size],
              cache |-> rd.cache]

RECURSIVE process_files(_, _, _)
\* The tasks of _process_files_parallel, in the order they were submitted:
\* the RawFileInfo of every file that gave one (if info:) and the reader's
\* cache afterwards.
process_files(cache, file_paths, d) ==
    IF file_paths = <<>> THEN [infos |-> <<>>, cache |-> cache]
    ELSE LET one == process_single_file(cache, Head(file_paths), d[Head(file_paths)])
             rest == process_files(one.cache, Tail(file_paths), d)
         IN  [infos |-> IF one.info # NoneVal THEN <<one.info>> \o rest.infos
                        ELSE rest.infos,
              cache |-> rest.cache]

\* as_completed(): the results in any order of completion.
CompletionOrders(infos) ==
    {order \in [1..Len(infos) -> Range(infos)] : Range(order) = Range(infos)}

RECURSIVE RemoveAll(_, _)
\* for deleted_file in deleted_files: index.remove(deleted_file)
RemoveAll(idx, file_paths) ==
    IF file_paths = <<>> THEN idx
    ELSE RemoveAll(IndexRemove(idx, Head(file_paths)), Tail(file_paths))

\* The record update_index_incrementally compares a file with: the first one
\* of its path in get_all_files().
ExistingInfo(idx, file_path) ==
    LET all == get_all_files(idx)
        hits == {i \in 1..Len(all) : all[i].path = file_path}
    IN  IF hits = {} THEN NoneVal
        ELSE all[CHOOSE i \in hits : \A j \in hits : i <= j]

\* Mutant of SizeChanged: a file already indexed is never taken for changed.
SizeChangedNever(existing_info, file) == FALSE

\* Mutant of SizeChanged: every file already indexed is taken for changed.
SizeChangedAlways(existing_info, file) == existing_info # NoneVal

\* existing_info and existing_info.file_size != current_stat.st_size
SizeChanged(existing_info, file) ==
    existing_info # NoneVal /\ existing_info.file_size # file.size

RECURSIVE check_updated(_, _, _)
\* The loop over potentially_updated_files: the files whose size differs
\* from the indexed one are removed from the index and collected. A file
\* whose stat() raises is logged and kept as it is.
check_updated(idx, file_paths, d) ==
    IF file_paths = <<>> THEN [index |-> idx, updated_files |-> <<>>]
    ELSE LET file_path == Head(file_paths)
             changed == /\ d[file_path] # Vanished
                        /\ SizeChanged(ExistingInfo(idx, file_path), d[file_path])
             rest == check_updated(IF changed THEN IndexRemove(idx, file_path) ELSE idx,
                                   Tail(file_paths), d)
         IN  [index |-> rest.index,
              updated_files |-> IF changed THEN <<file_path>> \o rest.updated_files
                                ELSE rest.updated_files]

\* update_index_incrementally up to the parallel processing: the index with
\* the deleted and the changed files removed, and the files to process.
update_plan(idx, d, recursive) ==
    LET current_files == Range(scan_raw_files(d, recursive))
        existing_files == {info.path : info \in Range(get_all_files(idx))}
        InOrder(S) == SelectSeq(SortedSrcPaths, LAMBDA p : p \in S)
        new_files == current_files \ existing_files
        deleted_files == existing_files \ current_files
        potentially_updated_files == current_files \cap existing_files
        checked == check_updated(RemoveAll(idx, InOrder(deleted_files)),
                                 InOrder(potentially_updated_files), d)
    IN  [index |-> checked.index,
         files_to_process |-> InOrder(new_files) \o checked.updated_files]

-----------------------------------------------------------------------------
(* Copier *)

\* The RAW files the matches handed to the copier may name, in sorted()
\* order, and pathlib's Path.name of them. Two of them have the same name.
SortedCopyPaths == <<Path("/other/IMG.CR2"), Path("/src/IMG.CR2"), Path("/src/ZZZ.CR2")>>
CopyPaths == {SortedCopyPaths[i] : i \in 1..Len(SortedCopyPaths)}
PathName(p) ==
    CASE Str(p) = "/src/IMG.CR2" -> "IMG.CR2"
      [] Str(p) = "/other/IMG.CR2" -> "IMG.CR2"
      [] Str(p) = "/src/ZZZ.CR2" -> "ZZZ.CR2"
      [] Str(p) = "/tgt/IMG.JPG" -> "IMG.JPG"
      [] Str(p) = "/tgt/img.jpeg" -> "img.jpeg"
      [] Str(p) = "/tgt/Dsc.JPG" -> "Dsc.JPG"
      [] Str(p) = "/tgt/ZZZ.jpg" -> "ZZZ.jpg"
      [] OTHER -> Str(p)

\* The target directory of the copies.
TargetDir == Path("/tgt")

\* A file that was in the target directory before, and what a copy that
\* broke off leaves at the destination.
OldCopy == [size |-> 9, exif |-> DT2]
PartialFile == [partial |-> TRUE]

\* What the copy of one file meets after the two exists() checks: nothing;
\* too little free space; stat() or disk_usage() raises (the check is given
\* up and the copy goes on); copy2 raises PermissionError before it writes;
\* copy2 raises OSError while it writes; an exception of any other kind
\* reaches the loop of copy_files.
CopyEnvs == {"ok", "no_space", "space_check_raises", "permission", "oserror", "raises"}

MsgSourceMissing == "source file does not exist"
MsgNoSpace == "not enough disk space"
MsgPermission == "permission error"
MsgOsError == "file operation error"
MsgUnexpected == "unexpected error"
MsgMkdir == "target directory not created"

\* Mutant of copy_single_file_with_error: an existing destination file is
\* replaced by the source file.
copy_single_file_overwrites(match, tgt, srcs, env) ==
    LET source_path == match.raw_path
        target_name == PathName(source_path)
    IN  IF srcs[source_path] = NoFile
        THEN [result |-> "failed", error_msg |-> MsgSourceMissing, target |-> tgt]
        ELSE [result |-> "success", error_msg |-> NoneVal,
              target |-> Put(tgt, target_name, srcs[source_path])]

\* Copier._copy_single_file_with_error, and an exception that leaves it: the
\* result, the error message and the target directory afterwards.
copy_single_file_with_error(match, tgt, srcs, env) ==
    LET source_path == match.raw_path
        target_name == PathName(source_path)
    IN  IF env = "raises"
        THEN [result |-> "failed", error_msg |-> MsgUnexpected, target |-> tgt]
        ELSE IF srcs[source_path] = NoFile
        THEN [result |-> "failed", error_msg |-> MsgSourceMissing, target |-> tgt]
        ELSE IF target_name \in DOMAIN tgt
        THEN [result |-> "skipped", error_msg |-> NoneVal, target |-> tgt]
        ELSE IF env = "no_space"
        THEN [result |-> "failed", error_msg |-> MsgNoSpace, target |-> tgt]
        ELSE IF env = "permission"
        THEN [result |-> "failed", error_msg |-> MsgPermission, target |-> tgt]
        ELSE IF env = "oserror"
        THEN [result |-> "failed", error_msg |-> MsgOsError,
              target |-> Put(tgt, target_name, PartialFile)]
        ELSE [result |-> "success", error_msg |-> NoneVal,
              target |-> Put(tgt, target_name, srcs[source_path])]

RECURSIVE copy_loop_from_start(_, _, _, _, _)
\* Mutant of copy_loop: every copy sees the target directory as it was when
\* the batch began, and writes into the directory the earlier ones left.
copy_loop_from_start(matches, start, tgt, srcs, envs) ==
    IF matches = <<>> THEN [results |-> <<>>, errors |-> <<>>, target |-> tgt]
    ELSE LET one == copy_single_file_with_error(Head(matches), start, srcs, Head(envs))
             written == [n \in DOMAIN tgt \cup DOMAIN one.target |->
                            IF n \in DOMAIN one.target /\ (n \notin DOMAIN start
                                                           \/ one.target[n] # start[n])
                            THEN one.target[n] ELSE tgt[n]]
             rest == copy_loop_from_start(Tail(matches), start, written, srcs, Tail(envs))
         IN  [results |-> <<one.result>> \o rest.results,
              errors |-> IF one.result = "failed"
                         THEN <<<<Head(matches).raw_path, one.error_msg>>>> \o rest.errors
                         ELSE rest.errors,
              target |-> rest.target]

\* Mutant of copy_loop: the copies of the batch do not see each other's files.
copy_loop_unordered(matches, tgt, srcs, envs) ==
    copy_loop_from_start(matches, tgt, tgt, srcs, envs)

\* Mutant of copy_loop: the loop ends at the first file that fails.
RECURSIVE copy_loop_stops_at_failure(_, _, _, _)
copy_loop_stops_at_failure(matches, tgt, srcs, envs) ==
    IF matches = <<>> THEN [results |-> <<>>, errors |-> <<>>, target |-> tgt]
    ELSE LET one == copy_single_file_with_error(Head(matches), tgt, srcs, Head(envs))
             rest == IF one.result = "failed"
                     THEN [results |-> <<>>, errors |-> <<>>, target |-> one.target]
                     ELSE copy_loop_stops_at_failure(Tail(matches), one.target, srcs, Tail(envs))
         IN  [results |-> <<one.result>> \o rest.results,
              errors |-> IF one.result = "failed"
                         THEN <<<<Head(matches).raw_path, one.error_msg>>>> \o rest.errors
                         ELSE rest.errors,
              target |-> rest.target]

\* copy_files, the loop over the matches: the result of every match in
\* order, the errors list and the target directory afterwards.
RECURSIVE copy_loop(_, _, _, _)
copy_loop(matches, tgt, srcs, envs) ==
    IF matches = <<>> THEN [results |-> <<>>, errors |-> <<>>, target |-> tgt]
    ELSE LET one == copy_single_file_with_error(Head(matches), tgt, srcs, Head(envs))
             rest == copy_loop(Tail(matches), one.target, srcs, Tail(envs))
         IN  [results |-> <<one.result>> \o rest.results,
              errors |-> IF one.result = "failed"
                         THEN <<<<Head(matches).raw_path, one.error_msg>>>> \o rest.errors
                         ELSE rest.errors,
              target |-> rest.target]

\* Copier.copy_files: the CopyResult, the result of every match the loop
\* reached, and the target directory afterwards. When mkdir() raises, every
\* match is counted as failed and the one error names the target directory.
copy_files(matches, target_dir, tgt, srcs, mkdir_raises, envs) ==
    IF mkdir_raises
    THEN [success |-> 0, skipped |-> 0, failed |-> Len(matches),
          errors |-> <<<<target_dir, MsgMkdir>>>>, results |-> <<>>, target |-> tgt]
    ELSE LET done == copy_loop(matches, tgt, srcs, envs)
         IN  [success |-> Count(done.results, "success"),
              skipped |-> Count(done.results, "skipped"),
              failed |-> Count(done.results, "failed"),
              errors |-> done.errors, results |-> done.results, target |-> done.target]

-----------------------------------------------------------------------------
(* MatchManager *)

\* The JPEG files that may lie in the target directory, in sorted() order.
SortedJpegPaths ==
    <<Path("/tgt/Dsc.JPG"), Path("/tgt/IMG.JPG"), Path("/tgt/ZZZ.jpg"), Path("/tgt/img.jpeg")>>

\* FileScanner.scan_jpeg_files on the target directory, which has no
\* subdirectories: the files with a JPEG suffix, sorted.
scan_jpeg_files(tgt) ==
    SelectSeq(SortedJpegPaths,
              LAMBDA p : PathName(p) \in DOMAIN tgt /\ PathSuffix(p) \in JPEG_EXTENSIONS)

\* The --source-filter arguments of the model: str values (None stands for
\* no filter).
SourceFilters == {JsonStr("/src"), JsonStr("/src/"), JsonStr("/other")}

\* Mutant of FilteredOut: the filter is not applied.
FilteredOutNever(source_dir, source_filter) == FALSE

\* `if source_filter and str(source_dir) != source_filter: continue`
FilteredOut(source_dir, source_filter) ==
    source_filter # NoneVal /\ Str(source_dir) # source_filter.str

RECURSIVE load_filtered_index(_, _, _, _)
\* MatchManager._load_global_index, from the list of indexed directories on:
\* the records of every directory that passes the filter and whose cache file
\* loads, added to one index in the order of the list.
load_filtered_index(global_index, directories, files, source_filter) ==
    IF directories = <<>> THEN global_index
    ELSE LET source_dir == Head(directories).path
             dir_index == load_directory_index(FileAt(files, get_cache_path(source_dir)))
         IN  IF FilteredOut(source_dir, source_filter) \/ dir_index = NoneVal
             THEN load_filtered_index(global_index, Tail(directories), files, source_filter)
             ELSE load_filtered_index(AddAll(global_index, get_all_files(dir_index)),
                                      Tail(directories), files, source_filter)

\* MatchManager._check_index_availability: whether matching goes on, and the
\* directories handed to _display_index_warning when it does not.
check_index_availability(directories, source_filter) ==
    IF directories = <<>> THEN [available |-> FALSE, missing |-> <<>>]
    ELSE IF source_filter # NoneVal
            /\ \A i \in 1..Len(directories) : directories[i].path # PathOfStr(source_filter.str)
    THEN [available |-> FALSE, missing |-> <<PathOfStr(source_filter.str)>>]
    ELSE [available |-> TRUE, missing |-> <<>>]

\* MatchManager._display_index_warning: the directories listed and the
\* commands shown.
display_index_warning(missing_directories) ==
    [directories |-> missing_directories,
     commands |-> IF missing_directories = <<>>
                  THEN <<<<"raw-jpeg-matcher index", "<directory of RAW files>">>>>
                  ELSE [i \in 1..Len(missing_directories) |->
                           <<"raw-jpeg-matcher index", missing_directories[i]>>]]

RECURSIVE match_each(_, _)
\* find_and_copy_matches, the matching loop: matcher.find_matches([jpeg_file])
\* for every file of the scan, which lists no path twice.
match_each(global_index, jpeg_files) ==
    IF jpeg_files = <<>> THEN <<>>
    ELSE find_matches(global_index, <<Head(jpeg_files)>>)
         \o match_each(global_index, Tail(jpeg_files))

\* Mutant of index_after_find: the lookup inserts an empty list for a key
\* that is missing (setdefault).
index_after_find_setdefault(idx, basename) ==
    IF Lower(basename) \in DictKeys(idx.by_basename) THEN idx
    ELSE [idx EXCEPT !.by_basename = Append(@, [key |-> Lower(basename), infos |-> <<>>])]

\* The index object after find_by_basename: self.by_basename.get(key, [])
\* on a plain dict inserts nothing, and the matcher only reads the list it
\* gets.
index_after_find(idx, basename) == idx

RECURSIVE index_after_matches(_, _)
\* The index object after the matching loop: one lookup for every JPEG file.
index_after_matches(idx, jpeg_files) ==
    IF jpeg_files = <<>> THEN idx
    ELSE index_after_matches(index_after_find(idx, get_basename(Head(jpeg_files))),
                             Tail(jpeg_files))

\* Mutant of cache_after_reads: a cache file that does not load is deleted.
cache_after_reads_drops_unloadable(manifest_file, files) ==
    [manifest_file |-> manifest_file,
     files |-> [f \in {g \in DOMAIN files : load_directory_index(files[g]) # NoneVal}
                  |-> files[f]]]

\* The cache directory after the list_indexed_directories and
\* load_directory_index calls of the command: both open their file for
\* reading only, and a file that does not load is logged and left.
cache_after_reads(manifest_file, files) ==
    [manifest_file |-> manifest_file, files |-> files]

NoCopy == [none |-> TRUE]

\* MatchManager.find_and_copy_matches: how the command ends, what it
\* reported, the matches, the CopyResult and the target directory afterwards.
find_and_copy_matches(manifest_file, files, tgt, srcs, source_filter) ==
    LET directories == list_indexed_directories(load_global_index(manifest_file))
        global_index == load_filtered_index(EmptyIndex, directories, files, source_filter)
        check == check_index_availability(directories, source_filter)
        jpeg_files == scan_jpeg_files(tgt)
        matches == match_each(global_index, jpeg_files)
        copy_result == copy_files(matches, TargetDir, tgt, srcs, FALSE,
                                  [i \in 1..Len(matches) |-> "ok"])
        quiet == [ended |-> "complete", warning |-> NoneVal, global_index |-> global_index,
                  jpeg_files |-> <<>>, matches |-> <<>>,
                  copy_result |-> NoCopy, target |-> tgt,
                  index_after |-> global_index,
                  cache |-> cache_after_reads(manifest_file, files)]
    IN  IF ~check.available
        THEN [quiet EXCEPT !.ended = "index_warning",
                           !.warning = display_index_warning(check.missing)]
        ELSE IF jpeg_files = <<>>
        THEN [quiet EXCEPT !.ended = "no_jpeg_files"]
        ELSE IF matches = <<>>
        THEN [quiet EXCEPT !.ended = "no_matches", !.jpeg_files = jpeg_files,
                           !.index_after = index_after_matches(global_index, jpeg_files)]
        ELSE [quiet EXCEPT !.jpeg_files = jpeg_files, !.matches = matches,
                           !.copy_result = copy_result, !.target = copy_result.target,
                           !.index_after = index_after_matches(global_index, jpeg_files)]

-----------------------------------------------------------------------------
(* Spec: the index object and the matcher *)

\* The build side at rest: nothing on disk, no call in progress.
IdleCall ==
    [pc |-> "idle", force_rebuild |-> FALSE, recursive |-> TRUE,
     cached |-> FALSE, existing_index |-> NoneVal,
     mode |-> "none", updated_index |-> NoneVal,
     result |-> NoneVal, error |-> NoneVal]

BuildAtRest ==
    /\ disk = DiskOf(Directory, [p \in SrcPaths |-> NoFile])
    /\ cache_file = NoFile
    /\ manifest = EmptyManifest
    /\ exif_cache = EmptyCache
    /\ call = IdleCall
    /\ clock = 0
    /\ fsOps = 0

\* The cache directory of the store side at rest: empty, no call made.
NoStoreOp == [op |-> "init"]
NoSaving == [p \in {} |-> NoneVal]
StoreAtRest ==
    /\ store = [f \in {} |-> NoneVal]
    /\ storeOp = NoStoreOp
    /\ saved = [k \in {} |-> NoneVal]
    /\ saving = NoSaving

\* The copier side at rest: no files, no call made.
NoRun == [op |-> "init"]
CopyAtRest ==
    /\ sources = [p \in CopyPaths |-> NoFile]
    /\ target = [n \in {} |-> NoneVal]
    /\ run = NoRun

NoOp == [op |-> "init", path |-> NoneVal, ret |-> FALSE, jpegs |-> <<>>, matches |-> <<>>]

\* A new RawFileIndex, as Indexer creates it or as a caller has labelled it.
InitIndex ==
    /\ index = [EmptyIndex EXCEPT !.source_directory = Path("/src"),
                                  !.last_updated = DT2]
    /\ added = <<>>
    /\ pending = {}
    /\ lastOp = NoOp
    /\ BuildAtRest
    /\ StoreAtRest
    /\ CopyAtRest

\* index.add(info). At most MaxAdds records are held at a time; file_count,
\* which remove() can leave above the number of records, is capped with them.
Add(info) ==
    /\ SumLen(index.by_basename) < MaxAdds
    /\ index.file_count < MaxAdds
    /\ index' = IndexAdd(index, info)
    /\ added' = Append(added, info)
    /\ pending' = pending \cup {info.path}
    /\ lastOp' = [NoOp EXCEPT !.op = "add", !.path = info.path]
    /\ UNCHANGED <<buildVars, storeVars, copyVars>>

\* index.remove(file_path)
Remove(file_path) ==
    /\ index' = IndexRemove(index, file_path)
    /\ added' = SelectSeq(added, LAMBDA info : info.path # file_path)
    /\ pending' = pending \ {file_path}
    /\ lastOp' = [NoOp EXCEPT !.op = "remove", !.path = file_path,
                              !.ret = IndexRemoveResult(index, file_path)]
    /\ UNCHANGED <<buildVars, storeVars, copyVars>>

\* index = RawFileIndex.from_dict(index.to_dict())
Restore ==
    /\ index' = from_dict(to_dict(index))
    /\ added' = get_all_files(index')
    /\ lastOp' = [NoOp EXCEPT !.op = "from_dict"]
    /\ UNCHANGED <<pending, buildVars, storeVars, copyVars>>

\* Sequences of 1..n elements of S.
SeqsUpTo(S, n) == UNION {[1..k -> S] : k \in 1..n}

\* Matcher(exif_reader, index).find_matches(jpeg_files)
FindMatches(jpeg_files) ==
    /\ lastOp' = [NoOp EXCEPT !.op = "find_matches", !.jpegs = jpeg_files,
                              !.matches = find_matches(index, jpeg_files)]
    /\ UNCHANGED <<index, added, pending, buildVars, storeVars, copyVars>>

Next ==
    \/ \E info \in RawFileInfo : Add(info)
    \/ \E file_path \in RawPaths : Remove(file_path)
    \/ Restore
    \/ \E jpeg_files \in SeqsUpTo(JpegPaths, MaxJpegs) : FindMatches(jpeg_files)

Spec == InitIndex /\ [][Next]_vars

-----------------------------------------------------------------------------
(* SpecMatch: Matcher.find_matches on lists of several JPEG files, against
   indexes of up to MaxIndexed records *)

\* The records an index was built from, in the order they were added.
IndexedInfos == {<<>>} \cup SeqsUpTo(RawFileInfo, MaxIndexed)

\* Matcher(exif_reader, index) with an index holding some records.
InitMatch ==
    /\ \E infos \in IndexedInfos :
          /\ index = AddAll(EmptyIndex, infos)
          /\ added = infos
    /\ pending = {}
    /\ lastOp = NoOp
    /\ BuildAtRest
    /\ StoreAtRest
    /\ CopyAtRest

NextMatch ==
    \E jpeg_files \in SeqsUpTo(JpegPaths, MaxJpegList) : FindMatches(jpeg_files)

SpecMatch == InitMatch /\ [][NextMatch]_vars

-----------------------------------------------------------------------------
(* SpecBuild: Indexer.build_index over a source directory that changes
   between the calls *)

\* The index object at rest: the build side keeps its own indexes.
IndexAtRest ==
    /\ index = EmptyIndex
    /\ added = <<>>
    /\ pending = {}
    /\ lastOp = NoOp

\* Some RAW files and other files lie in the directory; nothing is cached.
InitBuild ==
    /\ disk \in {DiskOf(Directory, files) : files \in [SrcPaths -> {NoFile, FirstVersion}]}
    /\ cache_file = NoFile
    /\ manifest = EmptyManifest
    /\ exif_cache = EmptyCache
    /\ call = IdleCall
    /\ clock = 0
    /\ fsOps = 0
    /\ IndexAtRest
    /\ StoreAtRest
    /\ CopyAtRest

\* No build_index call is in progress.
AtRest == call.pc \in {"idle", "returned", "raised"}

\* existing_index and not force_rebuild
UseDifferential(existing_index, force_rebuild) ==
    existing_index # NoneVal /\ ~force_rebuild

\* build_index(source_dir, recursive, force_rebuild), up to the choice of the
\* branch: the existing index is loaded unless a rebuild is forced.
BuildBegin(force_rebuild, recursive) ==
    /\ AtRest
    /\ clock < MaxBuilds
    /\ clock' = clock + 1
    /\ call' = [IdleCall EXCEPT
                  !.pc = "loaded",
                  !.force_rebuild = force_rebuild,
                  !.recursive = recursive,
                  !.cached = (load_directory_index(cache_file) # NoneVal),
                  !.existing_index = IF force_rebuild THEN NoneVal
                                     ELSE load_directory_index(cache_file)]
    /\ UNCHANGED <<disk, cache_file, manifest, exif_cache, fsOps, indexVars, storeVars, copyVars>>

\* raise ProcessingError(error_msg) from e
ProcessingError(cause) == [type |-> "ProcessingError", cause |-> cause]

\* scan_raw_files raises ValidationError, at the start of either branch:
\* build_index raises ProcessingError from it. Nothing has been written.
ScanFails ==
    /\ call.pc = "loaded"
    /\ validate_directory(disk, SrcDir) # NoneVal
    /\ call' = [call EXCEPT !.pc = "raised", !.existing_index = NoneVal,
                  !.error = ProcessingError(validate_directory(disk, SrcDir).type)]
    /\ UNCHANGED <<disk, cache_file, manifest, exif_cache, clock, fsOps, indexVars, storeVars, copyVars>>

\* updated_index = self._build_new_index(source_dir, recursive)
FullBuild ==
    /\ call.pc = "loaded"
    /\ ~UseDifferential(call.existing_index, call.force_rebuild)
    /\ validate_directory(disk, SrcDir) = NoneVal
    /\ LET raw_files == scan_raw_files(disk, call.recursive)
           processed == process_files(exif_cache, raw_files, disk)
       IN  /\ exif_cache' = processed.cache
           /\ \E processed_infos \in CompletionOrders(processed.infos) :
                call' = [call EXCEPT !.pc = "built", !.mode = "full",
                           !.updated_index = AddAll(EmptyIndex, processed_infos)]
    /\ UNCHANGED <<disk, cache_file, manifest, clock, fsOps, indexVars, storeVars, copyVars>>

\* updated_index = self.update_index_incrementally(existing_index, ...): the
\* existing index object is updated in place and becomes updated_index.
DifferentialUpdate ==
    /\ call.pc = "loaded"
    /\ UseDifferential(call.existing_index, call.force_rebuild)
    /\ validate_directory(disk, SrcDir) = NoneVal
    /\ LET plan == update_plan(call.existing_index, disk, call.recursive)
           processed == process_files(exif_cache, plan.files_to_process, disk)
       IN  /\ exif_cache' = processed.cache
           /\ \E processed_infos \in CompletionOrders(processed.infos) :
                call' = [call EXCEPT !.pc = "built", !.mode = "diff",
                           !.existing_index = NoneVal,
                           !.updated_index = AddAll(plan.index, processed_infos)]
    /\ UNCHANGED <<disk, cache_file, manifest, clock, fsOps, indexVars, storeVars, copyVars>>

\* self.cache.save_directory_index(source_dir, updated_index) succeeds; the
\* manifest update that follows may fail, which is logged and swallowed.
SaveOk(manifest_ok) ==
    /\ call.pc = "built"
    /\ LET stamped == Stamped(call.updated_index, Now(clock))
       IN  /\ cache_file' = WrittenCacheFile(cache_file, stamped)
           /\ manifest' = IF manifest_ok THEN update_global_index(manifest, stamped)
                          ELSE manifest
           /\ call' = [call EXCEPT !.pc = "saved", !.updated_index = stamped]
    /\ UNCHANGED <<disk, exif_cache, clock, fsOps, indexVars, storeVars, copyVars>>

\* save_directory_index raises: open() fails and the file stays as it was, or
\* json.dump() fails after the file was truncated. build_index raises
\* ProcessingError and the caller gets no index.
SaveFails(truncated) ==
    /\ call.pc = "built"
    /\ cache_file' = IF truncated THEN CorruptFile ELSE cache_file
    /\ call' = [call EXCEPT !.pc = "raised", !.updated_index = NoneVal,
                  !.error = ProcessingError("FileOperationError")]
    /\ UNCHANGED <<disk, manifest, exif_cache, clock, fsOps, indexVars, storeVars, copyVars>>

\* return updated_index
Return ==
    /\ call.pc = "saved"
    /\ call' = [call EXCEPT !.pc = "returned", !.result = call.updated_index]
    /\ UNCHANGED <<disk, cache_file, manifest, exif_cache, clock, fsOps, indexVars, storeVars, copyVars>>

\* The program ends and is started again: the command creates a new
\* ExifReader and a new Indexer.
NewRun ==
    /\ AtRest
    /\ exif_cache # EmptyCache \/ call # IdleCall
    /\ exif_cache' = EmptyCache
    /\ call' = IdleCall
    /\ UNCHANGED <<disk, cache_file, manifest, clock, fsOps, indexVars, storeVars, copyVars>>

\* Between two calls a file appears in the source directory. The content of
\* a file without a RAW suffix is never looked at: one version stands for all.
FsAdd(file_path, file) ==
    /\ AtRest
    /\ fsOps < MaxFsOps
    /\ disk[file_path] = NoFile
    /\ PathSuffix(file_path) \in RAW_EXTENSIONS \/ file = FirstVersion
    /\ disk' = [disk EXCEPT ![file_path] = file]
    /\ fsOps' = fsOps + 1
    /\ UNCHANGED <<cache_file, manifest, exif_cache, call, clock, indexVars, storeVars, copyVars>>

\* Between two calls a file is deleted.
FsRemove(file_path) ==
    /\ AtRest
    /\ fsOps < MaxFsOps
    /\ disk[file_path] # NoFile
    /\ disk' = [disk EXCEPT ![file_path] = NoFile]
    /\ fsOps' = fsOps + 1
    /\ UNCHANGED <<cache_file, manifest, exif_cache, call, clock, indexVars, storeVars, copyVars>>

\* Between two calls a file is rewritten with another size.
FsResize(file_path, file) ==
    /\ AtRest
    /\ fsOps < MaxFsOps
    /\ disk[file_path] # NoFile
    /\ disk[file_path].size # file.size
    /\ PathSuffix(file_path) \in RAW_EXTENSIONS
    /\ disk' = [disk EXCEPT ![file_path] = file]
    /\ fsOps' = fsOps + 1
    /\ UNCHANGED <<cache_file, manifest, exif_cache, call, clock, indexVars, storeVars, copyVars>>

NextBuild ==
    \/ \E force_rebuild \in BOOLEAN, recursive \in BOOLEAN :
         BuildBegin(force_rebuild, recursive)
    \/ FullBuild
    \/ DifferentialUpdate
    \/ \E manifest_ok \in BOOLEAN : SaveOk(manifest_ok)
    \/ \E truncated \in BOOLEAN : SaveFails(truncated)
    \/ Return
    \/ NewRun
    \/ \E file_path \in SrcPaths, file \in FileVersions : FsAdd(file_path, file)
    \/ \E file_path \in SrcPaths : FsRemove(file_path)
    \/ \E file_path \in SrcPaths, file \in FileVersions : FsResize(file_path, file)

SpecBuild == InitBuild /\ [][NextBuild]_vars

-----------------------------------------------------------------------------
(* SpecFault: Indexer.build_index over directories that are invalid or hold
   files that fail, with a cache left by an earlier run *)

\* Records an earlier run has indexed.
PriorInfos ==
    LET r1 == [path |-> Path("/src/IMG.CR2"), basename |-> "img",
               capture_datetime |-> DT1, file_size |-> 7]
        r2 == [path |-> Path("/src/sub/img.NEF"), basename |-> "img",
               capture_datetime |-> DT2, file_size |-> 9]
    IN  {<<>>, <<r1>>, <<r1, r2>>}

\* The index an earlier run has saved with these records.
PriorIndex(infos) == Stamped(AddAll(EmptyIndex, infos), Now(0))

\* The source directory is valid and holds good and failing files, or it is
\* missing, a regular file, or unreadable.
FaultyDisks ==
    {DiskOf(Directory, files) :
        files \in {f \in [SrcPaths -> {NoFile, FirstVersion} \cup FaultyVersions] :
                     \A p \in SrcPaths : PathSuffix(p) \notin RAW_EXTENSIONS
                                            => f[p] \in {NoFile, FirstVersion}}}
    \cup {DiskOf(dir_entry, [p \in SrcPaths |-> NoFile]) :
            dir_entry \in {NoFile, FirstVersion}}
    \cup {DiskOf(UnreadableDirectory, files) :
            files \in [SrcPaths -> {NoFile, FirstVersion}]}

InitFault ==
    /\ disk \in FaultyDisks
    /\ \/ cache_file \in {NoFile, CorruptFile} /\ manifest = EmptyManifest
       \/ \E infos \in PriorInfos :
            /\ cache_file = to_dict(PriorIndex(infos))
            /\ manifest = update_global_index(EmptyManifest, PriorIndex(infos))
    /\ exif_cache = EmptyCache
    /\ call = IdleCall
    /\ clock = 0
    /\ fsOps = 0
    /\ IndexAtRest
    /\ StoreAtRest
    /\ CopyAtRest

NextFault ==
    \/ \E force_rebuild \in BOOLEAN, recursive \in BOOLEAN :
         BuildBegin(force_rebuild, recursive)
    \/ ScanFails
    \/ FullBuild
    \/ DifferentialUpdate
    \/ \E manifest_ok \in BOOLEAN : SaveOk(manifest_ok)
    \/ \E truncated \in BOOLEAN : SaveFails(truncated)
    \/ Return

SpecFault == InitFault /\ [][NextFault]_vars

-----------------------------------------------------------------------------
(* SpecCopy: Copier.copy_files on batches of matches, over source files that
   may be gone and a target directory that may hold files of the same names *)

\* The matches of a batch: the copier reads raw_path only.
CopyMatches ==
    {[jpeg_path |-> Path("/tgt/IMG.JPG"), raw_path |-> p, match_method |-> "basename_only"] :
        p \in CopyPaths}
Batches == {<<>>} \cup SeqsUpTo(CopyMatches, MaxBatch)

\* The target directories a batch is copied into: some RAW files are there.
TargetNames == {PathName(p) : p \in CopyPaths}
Targets == {[n \in names |-> OldCopy] : names \in SUBSET TargetNames}

\* The RAW files the matches name: the two files of one name differ in
\* content when both are there.
OtherVersion == [size |-> 9, exif |-> DT1]
CopySources ==
    {srcs \in [CopyPaths -> {NoFile, FirstVersion, OtherVersion}] :
        \A p \in CopyPaths : srcs[p] = OtherVersion <=> Str(p) = "/other/IMG.CR2"}
        \cup [CopyPaths -> {NoFile, FirstVersion}]

InitCopy ==
    /\ sources \in CopySources
    /\ target \in Targets
    /\ run = NoRun
    /\ IndexAtRest
    /\ BuildAtRest
    /\ StoreAtRest

\* copier.copy_files(matches, target_dir). mkdir() raises only for a target
\* directory that is not there.
CopyFiles(matches, mkdir_raises, envs) ==
    /\ run.op = "init"
    /\ mkdir_raises => DOMAIN target = {}
    /\ LET result == copy_files(matches, TargetDir, target, sources, mkdir_raises, envs)
       IN  /\ target' = result.target
           /\ run' = [op |-> "copy_files", matches |-> matches, before |-> target,
                      mkdir_raises |-> mkdir_raises, envs |-> envs, result |-> result]
    /\ UNCHANGED <<sources, indexVars, buildVars, storeVars>>

NextCopy ==
    /\ run.op = "init"
    /\ \E matches \in Batches, mkdir_raises \in BOOLEAN :
          \E envs \in [1..Len(matches) -> CopyEnvs] : CopyFiles(matches, mkdir_raises, envs)

SpecCopy == InitCopy /\ [][NextCopy]_vars

-----------------------------------------------------------------------------
(* SpecStore: IndexCache over several directories, named in several ways,
   with writes that fail and saves that are interrupted *)

\* The source_dir arguments of the IndexCache methods.
SourceDirs == {PathOfStr(ref) : ref \in DirRefs}

\* The indexes handed to save_directory_index.
SavedInfos == {infos \in PriorInfos : infos # <<>>}

\* How a save can go: every write completes; the manifest cannot be opened
\* or its write breaks off (both logged and swallowed); the cache file cannot
\* be opened or its write breaks off (FileOperationError); the process is
\* killed while the cache file is written, or before the manifest is written.
SaveOutcomes ==
    {"ok", "manifest_unwritten", "manifest_truncated", "open_fails", "dump_fails",
     "killed_during_dump", "killed_before_manifest"}

\* The cache file after a save with this outcome: open(cache_path, 'w')
\* truncates the file and json.dump writes it piece by piece.
SavedCacheFile(old, new, outcome) ==
    CASE outcome = "open_fails" -> old
      [] outcome \in {"dump_fails", "killed_during_dump"} -> CorruptFile
      [] OTHER -> new

\* The manifest file after a save with this outcome.
SavedManifest(old, new, outcome) ==
    CASE outcome = "ok" -> new
      [] outcome = "manifest_truncated" -> CorruptFile
      [] OTHER -> old

\* What the caller of save_directory_index sees.
SaveReturn(outcome) ==
    CASE outcome \in {"ok", "manifest_unwritten", "manifest_truncated"} -> "returned"
      [] outcome \in {"open_fails", "dump_fails"} -> "FileOperationError"
      [] OTHER -> "killed"

InitStore ==
    /\ StoreAtRest
    /\ CopyAtRest
    /\ manifest = EmptyManifest
    /\ clock = 0
    /\ disk = DiskOf(Directory, [p \in SrcPaths |-> NoFile])
    /\ cache_file = NoFile
    /\ exif_cache = EmptyCache
    /\ call = IdleCall
    /\ fsOps = 0
    /\ IndexAtRest

restVars == <<disk, cache_file, exif_cache, call, fsOps, saving, indexVars, copyVars>>

\* cache.save_directory_index(source_dir, index)
Save(source_dir, infos, outcome) ==
    /\ clock < MaxSaves
    /\ clock' = clock + 1
    /\ LET cache_path == get_cache_path(source_dir)
           idx == StampedFor(AddAll(EmptyIndex, infos), source_dir, Now(clock'))
           dir_key == Str(resolve(source_dir))
       IN  /\ store' = LET file == SavedCacheFile(FileAt(store, cache_path),
                                                  WrittenCacheFile(FileAt(store, cache_path), idx),
                                                  outcome)
                       IN  IF file = NoFile THEN store ELSE Put(store, cache_path, file)
           /\ manifest' = SavedManifest(manifest,
                              global_index_with(load_global_index(manifest), source_dir, idx),
                              outcome)
           /\ storeOp' = [op |-> "save", source_dir |-> source_dir, ret |-> SaveReturn(outcome),
                          index |-> idx]
           /\ saved' = IF SaveReturn(outcome) = "returned"
                       THEN Put(saved, dir_key,
                                [last_updated |-> idx.last_updated,
                                 file_count |-> idx.file_count])
                       ELSE saved
    /\ UNCHANGED restVars

\* cache.load_directory_index(source_dir)
Load(source_dir) ==
    /\ storeOp' = [op |-> "load", source_dir |-> source_dir,
                   ret |-> load_directory_index(FileAt(store, get_cache_path(source_dir)))]
    /\ UNCHANGED <<store, manifest, clock, saved, restVars>>

\* cache.list_indexed_directories()
List ==
    /\ storeOp' = [op |-> "list",
                   ret |-> list_indexed_directories(load_global_index(manifest))]
    /\ UNCHANGED <<store, manifest, clock, saved, restVars>>

\* How a removal can go: every step completes; unlink() raises; the manifest
\* cannot be opened for writing or its write breaks off. The last three end
\* in the except branch.
RemoveOutcomes == {"ok", "unlink_fails", "manifest_unwritten", "manifest_truncated"}

\* cache.remove_directory_index(source_dir)
RemoveIndex(source_dir, outcome) ==
    LET cache_path == get_cache_path(source_dir)
        dir_key == Str(resolve(source_dir))
        global_index == load_global_index(manifest)
        has_file == cache_path \in DOMAIN store
        has_entry == dir_key \in DOMAIN global_index
    IN  /\ outcome = "unlink_fails" => has_file
        /\ outcome \in {"manifest_unwritten", "manifest_truncated"} => has_entry
        /\ store' = IF has_file /\ outcome # "unlink_fails"
                    THEN Delete(store, cache_path) ELSE store
        /\ manifest' = CASE outcome = "ok" /\ has_entry -> Delete(global_index, dir_key)
                         [] outcome = "manifest_truncated" -> CorruptFile
                         [] OTHER -> manifest
        /\ storeOp' = [op |-> "remove", source_dir |-> source_dir, failed |-> outcome # "ok",
                       ret |-> outcome = "ok" /\ (has_file \/ has_entry)]
        /\ saved' = IF outcome = "ok" /\ (has_file \/ has_entry)
                    THEN [k \in DOMAIN saved \ {dir_key} |-> saved[k]]
                    ELSE saved
        /\ UNCHANGED <<clock, restVars>>

\* Mutant of ClearAll: only the index_*.json files are deleted, the manifest
\* stays.
ClearAllKeepsManifest(kept, manifest_kept) ==
    /\ kept \subseteq DOMAIN store
    /\ ~manifest_kept
    /\ store' = [f \in kept |-> store[f]]
    /\ manifest' = manifest
    /\ storeOp' = [op |-> "clear", deleted |-> DOMAIN store \ kept,
                   ret |-> IF kept = {} THEN "returned" ELSE "FileOperationError"]
    /\ saved' = IF kept = {} THEN [k \in {} |-> NoneVal] ELSE saved
    /\ UNCHANGED <<clock, restVars>>

\* cache.clear_all_cache(): every *.json of the cache directory is deleted,
\* the manifest among them, in the order glob() yields them. When an unlink()
\* raises, that file and those not yet reached are still there (the cache
\* files in `kept`, and the manifest if manifest_kept) and FileOperationError
\* is raised. A manifest that reads as {} stands for no manifest file.
ClearAll(kept, manifest_kept) ==
    LET done == kept = {} /\ ~manifest_kept
    IN  /\ kept \subseteq DOMAIN store
        /\ manifest_kept => manifest # EmptyManifest
        /\ store' = [f \in kept |-> store[f]]
        /\ manifest' = IF manifest_kept THEN manifest ELSE EmptyManifest
        /\ storeOp' = [op |-> "clear", deleted |-> DOMAIN store \ kept,
                       ret |-> IF done THEN "returned" ELSE "FileOperationError"]
        /\ saved' = IF done THEN [k \in {} |-> NoneVal] ELSE saved
        /\ UNCHANGED <<clock, restVars>>

NextStore ==
    \/ \E source_dir \in SourceDirs, infos \in SavedInfos, outcome \in SaveOutcomes :
         Save(source_dir, infos, outcome)
    \/ \E source_dir \in SourceDirs : Load(source_dir)
    \/ List
    \/ \E source_dir \in SourceDirs, outcome \in RemoveOutcomes :
         RemoveIndex(source_dir, outcome)
    \/ \E kept \in SUBSET DOMAIN store, manifest_kept \in BOOLEAN :
         ClearAll(kept, manifest_kept)

SpecStore == InitStore /\ [][NextStore]_vars

-----------------------------------------------------------------------------
(* SpecManage: the index command and the match command over two source
   directories, a target directory and the cache directory *)

\* The source directories, and the RAW files below each, in sorted() order.
ManagedDirs == {Path("/src"), Path("/other")}
FilesBelow(source_dir) ==
    SelectSeq(SortedCopyPaths,
              LAMBDA p : IF Str(source_dir) = "/other"
                         THEN Str(p) = "/other/IMG.CR2"
                         ELSE Str(p) # "/other/IMG.CR2")

\* The index command on a directory: the records of the RAW files that are
\* in it, made by an Indexer that has read nothing.
BuiltInfos(source_dir, srcs) ==
    process_files(EmptyCache,
                  SelectSeq(FilesBelow(source_dir), LAMBDA p : srcs[p] # NoFile),
                  srcs).infos

\* The RAW files of the source directories and the JPEG files of the target
\* directory at the start.
SecondVersion == [size |-> 7, exif |-> DT2]
ManagedSources ==
    {srcs \in [CopyPaths -> {NoFile, FirstVersion, SecondVersion}] :
        \A p \in CopyPaths : srcs[p] = SecondVersion => Str(p) = "/src/ZZZ.CR2"}
JpegSets ==
    {{}, {Path("/tgt/IMG.JPG")}, {Path("/tgt/IMG.JPG"), Path("/tgt/img.jpeg")},
     {Path("/tgt/IMG.JPG"), Path("/tgt/ZZZ.jpg"), Path("/tgt/Dsc.JPG")}}
TargetOf(jpegs) ==
    [n \in {PathName(p) : p \in jpegs} |->
        JpegDisk(CHOOSE p \in jpegs : PathName(p) = n)]

InitManage ==
    /\ sources \in ManagedSources
    /\ target \in {TargetOf(jpegs) : jpegs \in JpegSets}
    /\ run = NoRun
    /\ IndexAtRest
    /\ BuildAtRest
    /\ StoreAtRest

\* How the save of the index command goes, and how a removal goes.
ManagedSaveOutcomes == {"ok", "killed_during_dump"}
ManagedRemoveOutcomes == {"ok", "manifest_unwritten"}

\* The directories are indexed and changed first, the match commands follow.
Preparing == run.op = "init"

\* raw-jpeg-matcher index <source_dir>
IndexCommand(source_dir, outcome) ==
    /\ Preparing
    /\ Save(source_dir, BuiltInfos(source_dir, sources), outcome)

\* raw-jpeg-matcher clear-cache --source <source_dir>
ClearCommand(source_dir, outcome) ==
    /\ Preparing
    /\ RemoveIndex(source_dir, outcome)

\* raw-jpeg-matcher match <target_dir> [--source-filter <source_filter>]
MatchCommand(source_filter) ==
    /\ LET done == find_and_copy_matches(manifest, store, target, sources, source_filter)
       IN  /\ target' = done.target
           /\ run' = [op |-> "match", source_filter |-> source_filter,
                      manifest_file |-> manifest, files |-> store,
                      sources |-> sources, before |-> target, done |-> done]
           /\ store' = done.cache.files
           /\ manifest' = done.cache.manifest_file
    /\ UNCHANGED <<sources, indexVars, disk, cache_file, exif_cache, call, clock, fsOps,
                   storeOp, saved, saving>>

\* A RAW file is deleted from its source directory.
DeleteSource(p) ==
    /\ Preparing
    /\ sources[p] # NoFile
    /\ sources' = [sources EXCEPT ![p] = NoFile]
    /\ UNCHANGED <<target, run, indexVars, buildVars, storeVars>>

NextManage ==
    \/ \E source_dir \in ManagedDirs, outcome \in ManagedSaveOutcomes :
         IndexCommand(source_dir, outcome)
    \/ \E source_dir \in ManagedDirs, outcome \in ManagedRemoveOutcomes :
         ClearCommand(source_dir, outcome)
    \/ \E source_filter \in SourceFilters \cup {NoneVal} : MatchCommand(source_filter)
    \/ \E p \in CopyPaths : DeleteSource(p)

SpecManage == InitManage /\ [][NextManage]_vars

-----------------------------------------------------------------------------
(* SpecConcurrent: two index commands, each in its own process, that save the
   indexes of two source directories into one cache directory. The code
   takes no lock: the steps of the two saves interleave freely. *)

\* The two processes and the directory each one indexes.
Procs == {1, 2}
DirOf(p) == IF p = 1 THEN Path("/src") ELSE Path("/other")

\* A process that has built its index and is about to save it.
SaveStarting == [pc |-> "start", index |-> NoneVal, global_index |-> NoneVal,
                 raced |-> FALSE]

InitConcurrent ==
    /\ sources \in ManagedSources
    /\ target = [n \in {} |-> NoneVal]
    /\ run = NoRun
    /\ IndexAtRest
    /\ BuildAtRest
    /\ store = [f \in {} |-> NoneVal]
    /\ storeOp = NoStoreOp
    /\ saved = [k \in {} |-> NoneVal]
    /\ saving = [p \in Procs |-> SaveStarting]

concurrentRest == <<storeOp, saved, disk, cache_file, exif_cache, call, fsOps,
                    indexVars, copyVars>>

\* save_directory_index: the index is stamped and the cache file of the
\* directory written. The two processes write different files.
WriteCacheFile(p) ==
    /\ saving[p].pc = "start"
    /\ clock' = clock + 1
    /\ LET cache_path == get_cache_path(DirOf(p))
           idx == StampedFor(AddAll(EmptyIndex, BuiltInfos(DirOf(p), sources)),
                             DirOf(p), Now(clock'))
       IN  /\ store' = Put(store, cache_path,
                           WrittenCacheFile(FileAt(store, cache_path), idx))
           /\ saving' = [saving EXCEPT ![p].pc = "file_written", ![p].index = idx]
    /\ UNCHANGED <<manifest, concurrentRest>>

\* _update_global_index: global_index = self.load_global_index() and the
\* entry of the directory set in the dict read. A manifest that another
\* process has opened for writing and not yet written reads as {}.
LoadManifest(p) ==
    /\ saving[p].pc = "file_written"
    /\ saving' = [saving EXCEPT
                    ![p].pc = "loaded",
                    ![p].global_index = global_index_with(load_global_index(manifest),
                                                          DirOf(p), saving[p].index)]
    /\ UNCHANGED <<store, manifest, clock, concurrentRest>>

\* open(self.global_index_file, 'w'): the manifest is truncated.
OpenManifest(p) ==
    /\ saving[p].pc = "loaded"
    /\ manifest' = CorruptFile
    /\ saving' = [saving EXCEPT ![p].pc = "opened"]
    /\ UNCHANGED <<store, clock, concurrentRest>>

\* json.dump(global_index, f) and the close of the file: the dict of this
\* process is written from offset 0. When the other process has written while
\* this one held the file open, the bytes of the two writes overlay: the
\* file has the content of this process, or (complete = FALSE) the tail of
\* the longer earlier write after it, which does not parse.
DumpManifest(p, complete) ==
    /\ saving[p].pc = "opened"
    /\ ~complete => saving[p].raced
    /\ manifest' = IF complete THEN saving[p].global_index ELSE CorruptFile
    /\ saving' = [q \in Procs |->
                    IF q = p THEN [saving[q] EXCEPT !.pc = "done"]
                    ELSE IF saving[q].pc = "opened"
                         THEN [saving[q] EXCEPT !.raced = TRUE]
                         ELSE saving[q]]
    /\ UNCHANGED <<store, clock, concurrentRest>>

NextConcurrent ==
    \/ \E p \in Procs : WriteCacheFile(p)
    \/ \E p \in Procs : LoadManifest(p)
    \/ \E p \in Procs : OpenManifest(p)
    \/ \E p \in Procs, complete \in BOOLEAN : DumpManifest(p, complete)

SpecConcurrent == InitConcurrent /\ [][NextConcurrent]_vars

-----------------------------------------------------------------------------
(* Properties of the index object and the matcher, checked under Spec *)

\* The capture timestamp a JPEG file of the target directory carries, if any.
JpegTimestamp(p) ==
    IF JpegDisk(p) \in {NoFile, OsErrorFile} THEN NoneVal ELSE JpegDisk(p).exif
JpegReadable(p) == JpegDisk(p) \notin {NoFile, OsErrorFile}

\* The live records of a basename, in the order add() received them.
AddedUnder(basename) == SelectSeq(added, LAMBDA r : r.basename = basename)
MatchesOf(jpeg_path) == SelectSeq(lastOp.matches, LAMBDA m : m.jpeg_path = jpeg_path)

\* C2: a JPEG with a capture timestamp whose basename is in the index is
\* matched, by basename_and_datetime, exactly when a record of that basename
\* has the very same timestamp; otherwise it gets no match, and never a
\* basename_only one.
C2_ExactTimestampOrNoMatch ==
    lastOp.op = "find_matches" =>
        \A jp \in Range(lastOp.jpegs) :
            LET ts == JpegTimestamp(jp)
                same == AddedUnder(get_basename(jp))
                equal == SelectSeq(same, LAMBDA r : r.capture_datetime = ts)
                ms == MatchesOf(jp)
            IN  (ts # NoneVal /\ same # <<>>) =>
                    /\ (\E m \in Range(ms) : m.match_method = "basename_and_datetime")
                           <=> (equal # <<>>)
                    /\ (equal = <<>>) => (ms = <<>>)
                    /\ \A m \in Range(ms) : m.match_method # "basename_only"

\* C2 witness: a JPEG with a timestamp met records of its basename, none of
\* them with that timestamp, and find_matches returned nothing.
C2_Witness ==
    /\ lastOp.op = "find_matches"
    /\ lastOp.matches = <<>>
    /\ \E jp \in Range(lastOp.jpegs) :
          /\ JpegTimestamp(jp) # NoneVal
          /\ Len(AddedUnder(get_basename(jp))) >= 2
          /\ \E r \in Range(AddedUnder(get_basename(jp))) : r.capture_datetime # NoneVal

\* C3: a JPEG without a capture timestamp whose basename is in the index gets
\* exactly one match, basename_only, to the record of that basename that was
\* added first, whatever the timestamps of the records.
C3_NoTimestampFirstOfBasename ==
    lastOp.op = "find_matches" =>
        \A jp \in Range(lastOp.jpegs) :
            LET same == AddedUnder(get_basename(jp))
                ms == MatchesOf(jp)
            IN  (JpegReadable(jp) /\ JpegTimestamp(jp) = NoneVal /\ same # <<>>) =>
                    /\ Len(ms) = Count(lastOp.jpegs, jp)
                    /\ \A m \in Range(ms) :
                          /\ m.match_method = "basename_only"
                          /\ m.raw_path = same[1].path

\* C3 witness: such a JPEG was matched while the index held two records of
\* its basename under different paths, the first of them with a timestamp.
C3_Witness ==
    /\ lastOp.op = "find_matches"
    /\ \E jp \in Range(lastOp.jpegs) :
          LET same == AddedUnder(get_basename(jp))
          IN  /\ JpegReadable(jp) /\ JpegTimestamp(jp) = NoneVal
              /\ Len(same) >= 2
              /\ same[1].path # same[2].path
              /\ same[1].capture_datetime # NoneVal
              /\ MatchesOf(jp) # <<>>

\* C4: when several records of the JPEG's basename carry exactly the JPEG's
\* timestamp, the one added earliest among them is selected, by
\* basename_and_datetime; earlier records with another timestamp are passed
\* over, and a match is produced all the same.
C4_EarliestEqualCandidateWins ==
    lastOp.op = "find_matches" =>
        \A jp \in Range(lastOp.jpegs) :
            LET ts == JpegTimestamp(jp)
                same == AddedUnder(get_basename(jp))
                equal == SelectSeq(same, LAMBDA r : r.capture_datetime = ts)
                ms == MatchesOf(jp)
            IN  (ts # NoneVal /\ Len(equal) >= 2) =>
                    /\ Len(ms) = Count(lastOp.jpegs, jp)
                    /\ \A m \in Range(ms) :
                          /\ m.match_method = "basename_and_datetime"
                          /\ m.raw_path = equal[1].path

\* C4 witness: two records carried the JPEG's timestamp, a record of the same
\* basename with another timestamp and another path had been added before
\* them, and the match went to the first of the two.
C4_Witness ==
    /\ lastOp.op = "find_matches"
    /\ \E jp \in Range(lastOp.jpegs) :
          LET ts == JpegTimestamp(jp)
              same == AddedUnder(get_basename(jp))
              equal == SelectSeq(same, LAMBDA r : r.capture_datetime = ts)
          IN  /\ ts # NoneVal
              /\ Len(equal) >= 2
              /\ same[1].capture_datetime # ts
              /\ same[1].path # equal[1].path
              /\ MatchesOf(jp) # <<>>

\* C5: every record of by_basename sits under its own basename; by_datetime
\* holds exactly the records of by_basename that have a timestamp, each under
\* its own timestamp and as many times; no key maps to an empty list.
C5_MapsConsistent ==
    /\ \A i \in 1..Len(index.by_basename) :
          /\ index.by_basename[i].infos # <<>>
          /\ \A r \in Range(index.by_basename[i].infos) :
                r.basename = index.by_basename[i].key
    /\ \A i \in 1..Len(index.by_datetime) :
          /\ index.by_datetime[i].infos # <<>>
          /\ \A r \in Range(index.by_datetime[i].infos) :
                r.capture_datetime = index.by_datetime[i].key
    /\ \A r \in Range(Flatten(index.by_basename)) \cup Range(Flatten(index.by_datetime)) :
          Count(Flatten(index.by_datetime), r)
              = IF r.capture_datetime # NoneVal
                THEN Count(Flatten(index.by_basename), r)
                ELSE 0

\* C5 witness: remove() has just deleted records, and the index still holds a
\* record with a timestamp and a record without.
C5_Witness ==
    /\ lastOp.op = "remove" /\ lastOp.ret
    /\ index.by_datetime # <<>>
    /\ \E r \in Range(Flatten(index.by_basename)) : r.capture_datetime = NoneVal

\* C6: file_count is the number of records the index holds.
C6_FileCountIsRecordCount ==
    index.file_count = SumLen(index.by_basename)

\* C7: remove(path) leaves no record of the path in either map, returns true
\* exactly when the index held one, and keeps every record of another path
\* under its key, as many times as before.
C7_RemoveDeletesEveryRecordOfPath ==
    [][lastOp'.op = "remove" =>
          LET p == lastOp'.path
              keptSame(before, after) ==
                  \A k \in DictKeys(before) \cup DictKeys(after) :
                      \A r \in Range(DictGet(before, k, <<>>)) \cup Range(DictGet(after, k, <<>>)) :
                          Count(DictGet(after, k, <<>>), r)
                              = IF r.path = p THEN 0 ELSE Count(DictGet(before, k, <<>>), r)
          IN  /\ keptSame(index.by_basename, index'.by_basename)
              /\ keptSame(index.by_datetime, index'.by_datetime)
              /\ lastOp'.ret = (\E r \in Range(Flatten(index.by_basename)) : r.path = p)
      ]_vars

\* C7 witness: remove() returned true, records of another path are still in
\* the index, and more than one record of a path has been deleted by one call
\* (which is what leaves file_count above the number of records).
C7_Witness ==
    /\ lastOp.op = "remove" /\ lastOp.ret
    /\ index.by_basename # <<>>
    /\ index.file_count > SumLen(index.by_basename)

\* C8: once remove() has been called for the path of every record added,
\* file_count is 0 and both maps are empty.
C8_AddThenRemoveAllIsEmpty ==
    pending = {} =>
        /\ index.file_count = 0
        /\ index.by_basename = <<>>
        /\ index.by_datetime = <<>>

\* The records of an index as a bag: record -> number of copies.
RecordBag(idx) ==
    [r \in Range(get_all_files(idx)) |-> Count(get_all_files(idx), r)]

\* C9: from_dict(to_dict(I)) has the records, the source_directory and the
\* file_count of I.
C9_RoundTripPreservesIndex ==
    LET restored == from_dict(to_dict(index))
    IN  /\ RecordBag(restored) = RecordBag(index)
        /\ restored.source_directory = index.source_directory
        /\ restored.file_count = index.file_count


-----------------------------------------------------------------------------
(* Properties of SpecBuild *)

\* The records of an index, as a set.
RecordSet(idx) == Range(get_all_files(idx))

\* The records _build_new_index gives when an Indexer that has read nothing
\* yet runs it on the directory as it is now.
FullBuildRecords ==
    Range(process_files(EmptyCache, scan_raw_files(disk, call.recursive), disk).infos)

\* C1: when build_index has updated the cached index differentially, the
\* records of the result are those of a full build of the directory as it
\* is now.
C1_DifferentialEqualsFullBuild ==
    (call.pc = "built" /\ call.mode = "diff")
        => RecordSet(call.updated_index) = FullBuildRecords

\* C10: a call that returns has built in full exactly when force_rebuild was
\* set or no cached index could be loaded, has updated differentially
\* otherwise, and the cache file holds the returned index.
C10_BuildModeAndSave ==
    call.pc = "returned" =>
        /\ (call.mode = "full") = (call.force_rebuild \/ ~call.cached)
        /\ (call.mode = "diff") = (~call.force_rebuild /\ call.cached)
        /\ cache_file = to_dict(call.updated_index)

\* A forced rebuild returns although a loadable cache existed, with records.
C10_Witness ==
    /\ call.pc = "returned"
    /\ call.force_rebuild
    /\ call.cached
    /\ call.mode = "full"
    /\ call.updated_index.file_count > 0

-----------------------------------------------------------------------------
(* Properties of SpecFault *)

\* The step in which _build_new_index runs.
FullBuildStep == call.pc = "loaded" /\ call'.pc = "built" /\ call'.mode = "full"

\* The number of records of the index that have the path.
RecordsOfPath(idx, file_path) ==
    Cardinality({i \in 1..Len(get_all_files(idx)) : get_all_files(idx)[i].path = file_path})

\* The capture timestamp a reader that has not read the file before gets:
\* None for an empty file, a failing read or a raising read.
TimestampRead(file) ==
    IF StatRaises(file) \/ file.size = 0 THEN NoneVal ELSE file.exif

\* C11: a full build gives an index with exactly one record for every RAW
\* file the scan returns.
C11_OneRecordPerScannedFile ==
    [][FullBuildStep =>
         \A p \in SrcPaths :
            RecordsOfPath(call'.updated_index, p)
              = IF p \in Range(scan_raw_files(disk, call.recursive)) THEN 1 ELSE 0]_vars

\* C11 amended: a full build never raises, and its index holds exactly one
\* record for every scanned RAW file whose stat() succeeds - with the file's
\* size, and with timestamp None when the timestamp read fails or raises -
\* and no record for a file whose stat() raises.
C11_OneRecordPerStatableFile ==
    [][(call.pc = "loaded" /\ call'.pc # "loaded" /\ disk[SrcDir] = Directory
          /\ ~UseDifferential(call.existing_index, call.force_rebuild))
       => /\ FullBuildStep
          /\ \A p \in SrcPaths :
               LET idx == call'.updated_index
                   scanned == p \in Range(scan_raw_files(disk, call.recursive))
               IN  IF scanned /\ disk[p] # Vanished
                   THEN /\ RecordsOfPath(idx, p) = 1
                        /\ \E r \in Range(get_all_files(idx)) :
                             /\ r.path = p
                             /\ r.file_size = disk[p].size
                             /\ p \notin DOMAIN exif_cache
                                  => r.capture_datetime = TimestampRead(disk[p])
                   ELSE RecordsOfPath(idx, p) = 0]_vars

\* A full build has indexed a file whose read raises, with timestamp None,
\* and has left out a file whose stat() raised.
C11_Witness ==
    /\ call.pc = "built"
    /\ call.mode = "full"
    /\ disk[Path("/src/IMG.CR2")] = RaisingVersion
    /\ disk[Path("/src/sub/img.NEF")] = Vanished
    /\ call.recursive
    /\ get_all_files(call.updated_index)
         = <<[path |-> Path("/src/IMG.CR2"), basename |-> "img",
              capture_datetime |-> NoneVal, file_size |-> 7]>>

\* C14: when the build succeeds and the save fails, build_index reports the
\* persistence error and the caller still obtains the index.
C14_SaveFailureStillGivesIndex ==
    (call.pc = "raised" /\ call.error = ProcessingError("FileOperationError"))
        => call.result # NoneVal

\* The source directory is missing, not a directory, or unreadable.
DirectoryInvalid == disk[SrcDir] # Directory

\* C15: with an invalid source directory a build_index call, in either
\* branch, ends by raising the error of the directory validation, and no step
\* of it changes the cache file or the manifest.
C15_InvalidDirectoryAborts ==
    [][DirectoryInvalid =>
         /\ cache_file' = cache_file
         /\ manifest' = manifest
         /\ call.pc = "loaded"
              => /\ call'.pc = "raised"
                 /\ call'.error = ProcessingError("ValidationError")
                 /\ call'.result = NoneVal]_vars

\* A call that would have updated an existing cache differentially has
\* raised for an unreadable directory.
C15_Witness ==
    /\ call.pc = "raised"
    /\ call.error = ProcessingError("ValidationError")
    /\ disk[SrcDir] = UnreadableDirectory
    /\ call.cached
    /\ ~call.force_rebuild
    /\ cache_file = to_dict(PriorIndex(CHOOSE infos \in PriorInfos : Len(infos) = 2))
    /\ manifest # EmptyManifest

-----------------------------------------------------------------------------
(* Properties of SpecStore *)

\* The cache file and the manifest key of a directory as the caller names it.
CachePathOf(ref) == get_cache_path(PathOfStr(ref))
DirKeyOf(ref) == Str(resolve(PathOfStr(ref)))

\* The same of the source_dir of the last call.
CachePathOfCall(op) == get_cache_path(op.source_dir)
DirKeyOfCall(op) == Str(resolve(op.source_dir))

\* A cache file that holds a complete serialized index.
CompleteFile(file) == file # NoFile /\ file # CorruptFile

\* C12: a save that is interrupted leaves the cache file of the directory as
\* it was (the complete index saved before, or no file) or holding the
\* complete new index, never a partially written one.
C12_InterruptedSaveKeepsCompleteFile ==
    [][(storeOp'.op = "save" /\ storeOp'.ret = "killed"
          /\ FileAt(store, CachePathOfCall(storeOp')) # CorruptFile)
       => FileAt(store', CachePathOfCall(storeOp'))
            \in {FileAt(store, CachePathOfCall(storeOp')), to_dict(storeOp'.index)}]_vars

\* C13: when save_directory_index has returned without error, the cache file
\* holds the complete serialized index and the manifest has an entry for the
\* resolved directory with the last_updated and the file_count stored in the
\* cache file.
C13_ReturnedSaveWroteBoth ==
    (storeOp.op = "save" /\ storeOp.ret = "returned")
    => LET file == FileAt(store, CachePathOfCall(storeOp))
           global_index == load_global_index(manifest)
           dir_key == DirKeyOfCall(storeOp)
       IN  /\ file = to_dict(storeOp.index)
           /\ dir_key \in DOMAIN global_index
           /\ global_index[dir_key].last_updated = file.last_updated
           /\ global_index[dir_key].file_count = file.file_count

\* The results of load_directory_index and list_indexed_directories in the
\* present state of the cache directory.
LoadedNow(ref) == load_directory_index(FileAt(store, CachePathOf(ref)))
ListedNow == list_indexed_directories(load_global_index(manifest))

\* C16: load_directory_index returns None when the directory has no cache
\* file and when its cache file cannot be parsed, the same in both cases.
C16_LoadOfMissingOrCorruptIsNone ==
    (storeOp.op = "load" /\ ~CompleteFile(FileAt(store, CachePathOfCall(storeOp))))
    => storeOp.ret = NoneVal

\* A load of a directory whose cache file cannot be parsed.
C16_Witness ==
    /\ storeOp.op = "load"
    /\ FileAt(store, CachePathOfCall(storeOp)) = CorruptFile
    /\ storeOp.ret = NoneVal

\* The list ordered from the newest last_updated to the oldest.
NewestFirst(directories) ==
    \A i, j \in 1..Len(directories) :
        i < j => Newer(directories[i].last_updated, directories[j].last_updated)

\* C17: list_indexed_directories returns exactly the directories that have
\* been saved and not since removed or cleared, one entry each, with the
\* last_updated and the file count of the save, newest first.
C17_ListIsSavedDirectories ==
    storeOp.op = "list"
    => /\ Len(storeOp.ret) = Cardinality(DOMAIN saved)
       /\ {Str(e.path) : e \in Range(storeOp.ret)} = DOMAIN saved
       /\ \A e \in Range(storeOp.ret) :
             Str(e.path) \in DOMAIN saved
             => /\ e.last_updated = saved[Str(e.path)].last_updated
                /\ e.file_count = saved[Str(e.path)].file_count
       /\ NewestFirst(storeOp.ret)

C19_ClearedCacheIsEmpty ==
    (storeOp.op = "clear" /\ storeOp.ret = "returned")
    => /\ ListedNow = <<>>
       /\ \A ref \in DirRefs : LoadedNow(ref) = NoneVal

\* clear_all_cache has returned after deleting the cache files of two
\* directories.
C19_Witness ==
    /\ storeOp.op = "clear"
    /\ storeOp.ret = "returned"
    /\ Cardinality(storeOp.deleted) = 2
    /\ ListedNow = <<>>

\* The directory a reference leads to, by the file system: the working
\* directory is "/", /link is a symbolic link to /src.
DirectoryOf(ref) == IF ref = "/other" THEN "other" ELSE "src"

\* C20: references to the same directory have the same cache file and the
\* same manifest key, so that the cache directory never holds two cache files
\* or two manifest entries for one directory, and an index saved under one
\* reference is the one loaded under every other.
C20_OneCacheFilePerDirectory ==
    /\ \A r1, r2 \in DirRefs :
          DirectoryOf(r1) = DirectoryOf(r2)
          => CachePathOf(r1) = CachePathOf(r2) /\ DirKeyOf(r1) = DirKeyOf(r2)
    /\ \A r \in DirRefs :
          LET same == {r2 \in DirRefs : DirectoryOf(r2) = DirectoryOf(r)}
          IN  /\ Cardinality({CachePathOf(r2) : r2 \in same} \cap DOMAIN store) <= 1
              /\ Cardinality({DirKeyOf(r2) : r2 \in same}
                               \cap DOMAIN load_global_index(manifest)) <= 1
    /\ (storeOp.op = "save" /\ storeOp.ret = "returned")
       => \A r2 \in DirRefs :
             CachePathOf(r2) = CachePathOfCall(storeOp)
             => LoadedNow(r2) = from_dict(to_dict(storeOp.index))

\* The index saved through the symbolic link is the one loaded under the
\* relative path: one cache file and one manifest entry.
C20_Witness ==
    /\ storeOp.op = "load"
    /\ storeOp.source_dir = PathOfStr("src")
    /\ storeOp.ret # NoneVal
    /\ storeOp.ret.source_directory = PathOfStr("/link")
    /\ Cardinality(DOMAIN store) = 1
    /\ Cardinality(DOMAIN load_global_index(manifest)) = 1

-----------------------------------------------------------------------------
(* Properties of SpecMatch *)

\* The increasing maps from the positions of a list of n to those of one of m.
IncreasingMaps(n, m) ==
    {f \in [1..n -> 1..m] : \A i, j \in 1..n : i < j => f[i] < f[j]}

\* C23: the results of find_matches are results of distinct entries of the
\* input list, in the order of the list, and a JPEG whose basename has no
\* record in the index has no result.
C23_OneResultPerJpegInInputOrder ==
    lastOp.op = "find_matches" =>
        /\ \E f \in IncreasingMaps(Len(lastOp.matches), Len(lastOp.jpegs)) :
              \A i \in 1..Len(lastOp.matches) :
                  lastOp.matches[i].jpeg_path = lastOp.jpegs[f[i]]
        /\ \A jp \in Range(lastOp.jpegs) :
              AddedUnder(get_basename(jp)) = <<>> => MatchesOf(jp) = <<>>

\* Two different JPEGs were both matched: the result has two entries, that of
\* the first JPEG first.
C23_Witness ==
    /\ lastOp.op = "find_matches"
    /\ Len(lastOp.jpegs) = 2
    /\ lastOp.jpegs[1] # lastOp.jpegs[2]
    /\ Len(lastOp.matches) = 2
    /\ lastOp.matches[1].jpeg_path = lastOp.jpegs[1]

\* A JPEG whose timestamp read raises.
JpegReadRaises(p) == StatRaises(JpegDisk(p))

\* C24: a JPEG whose timestamp read raises is matched by basename_only with
\* the first record of its basename, if there is one, and the other JPEGs of
\* the list get the results they get without it.
C24_ReadErrorIsNoTimestamp ==
    lastOp.op = "find_matches" =>
        \A jp \in Range(lastOp.jpegs) :
            JpegReadRaises(jp) =>
                LET same == AddedUnder(get_basename(jp))
                    ms == MatchesOf(jp)
                IN  /\ same = <<>> => ms = <<>>
                    /\ same # <<>> =>
                          /\ Len(ms) = Count(lastOp.jpegs, jp)
                          /\ \A m \in Range(ms) :
                                /\ m.match_method = "basename_only"
                                /\ m.raw_path = same[1].path
                    /\ SelectSeq(lastOp.matches, LAMBDA m : m.jpeg_path # jp)
                         = find_matches(index, SelectSeq(lastOp.jpegs, LAMBDA p : p # jp))

\* The first JPEG of the list raised and was matched by basename_only against
\* records that carry timestamps; the JPEG after it was matched as well.
C24_Witness ==
    /\ lastOp.op = "find_matches"
    /\ Len(lastOp.jpegs) = 2
    /\ JpegReadRaises(lastOp.jpegs[1])
    /\ ~JpegReadRaises(lastOp.jpegs[2])
    /\ Len(lastOp.matches) = 2
    /\ lastOp.matches[1].match_method = "basename_only"
    /\ AddedUnder(get_basename(lastOp.jpegs[1]))[1].capture_datetime # NoneVal

-----------------------------------------------------------------------------
(* Properties of FileScanner, checked under SpecBuild *)

\* A suffix in lower case, for the suffixes of the model.
LowerSuffix(suffix) ==
    CASE suffix \in {".CR2", ".Cr2"} -> ".cr2"
      [] suffix = ".NEF" -> ".nef"
      [] suffix \in {".JPG", ".Jpg"} -> ".jpg"
      [] suffix = ".JPEG" -> ".jpeg"
      [] OTHER -> suffix

\* The paths of the records of an index.
IndexedPaths(idx) == {info.path : info \in Range(get_all_files(idx))}

\* C28: a file is taken for a RAW file exactly when its suffix, letter case
\* ignored, is in the RAW extension set, and for a JPEG file exactly when it
\* is in the JPEG extension set; a build indexes every such RAW file of the
\* directory.
C28_ExtensionsCaseInsensitive ==
    [][(call.pc = "loaded" /\ call'.pc = "built")
       => /\ \A suffix \in {".CR2", ".Cr2", ".cr2", ".NEF", ".txt"} :
                is_raw_suffix(suffix) <=> is_raw_suffix(LowerSuffix(suffix))
          /\ \A suffix \in {".JPG", ".Jpg", ".jpg", ".JPEG", ".txt"} :
                is_jpeg_suffix(suffix) <=> is_jpeg_suffix(LowerSuffix(suffix))
          /\ \A p \in SrcPaths :
                (disk[p] # NoFile /\ (call.recursive \/ ~PathInSubdir(p)))
                => (p \in IndexedPaths(call'.updated_index)
                      <=> is_raw_suffix(LowerSuffix(PathSuffix(p))))]_vars

-----------------------------------------------------------------------------
(* Properties of the differential update, checked under SpecBuild *)

\* The step in which update_index_incrementally runs.
DifferentialStep == call.pc = "loaded" /\ call'.pc = "built" /\ call'.mode = "diff"

\* The RAW files the scan of the update returns.
ScannedNow == Range(scan_raw_files(disk, call.recursive))

\* C29: after a differential update the paths of the index are the RAW files
\* the scan returns now, and every record has the size its file has on disk.
C29_DifferentialFollowsDisk ==
    (call.pc = "built" /\ call.mode = "diff")
    => /\ IndexedPaths(call.updated_index) = ScannedNow
       /\ \A info \in Range(get_all_files(call.updated_index)) :
             info.file_size = disk[info.path].size

\* The index the update started from: the cache file is not yet rewritten.
IndexBefore == load_directory_index(cache_file)

\* A differential update that dropped the record of a deleted file and added
\* a new file.
C29_Witness ==
    /\ call.pc = "built"
    /\ call.mode = "diff"
    /\ IndexedPaths(IndexBefore) \ IndexedPaths(call.updated_index) # {}
    /\ IndexedPaths(call.updated_index) \ IndexedPaths(IndexBefore) # {}

\* The records of the index that have the path, in the order of get_all_files.
RecordsAt(idx, file_path) ==
    SelectSeq(get_all_files(idx), LAMBDA info : info.path = file_path)

\* The files of the scan that are not in the index, and those that are in it
\* with another size than the one on disk.
NewFiles(idx) == ScannedNow \ IndexedPaths(idx)
ResizedFiles(idx) ==
    {p \in ScannedNow \cap IndexedPaths(idx) :
        \E info \in Range(RecordsAt(idx, p)) : info.file_size # disk[p].size}

\* C30: a differential update hands exactly the new and the resized files to
\* the timestamp extraction; the reader is asked about no other file, and a
\* file on disk and in the index with the same size keeps its records.
C30_OnlyNewAndResizedAreRead ==
    [][DifferentialStep
       => LET existing == call.existing_index
              reprocess == NewFiles(existing) \cup ResizedFiles(existing)
          IN  /\ Range(update_plan(existing, disk, call.recursive).files_to_process)
                   = reprocess
              /\ DOMAIN exif_cache' = DOMAIN exif_cache \cup reprocess
              /\ \A p \in reprocess :
                    \A info \in Range(RecordsAt(call'.updated_index, p)) :
                        info.file_size = disk[p].size
              /\ \A p \in (ScannedNow \cap IndexedPaths(existing)) \ reprocess :
                    RecordsAt(call'.updated_index, p) = RecordsAt(existing, p)]_vars

\* A differential update by a reader that had read nothing processed a new
\* file and left alone a file that was indexed before.
C30_Witness ==
    /\ call.pc = "built"
    /\ call.mode = "diff"
    /\ \E p, q \in SrcPaths :
          /\ p \in DOMAIN exif_cache
          /\ p \notin IndexedPaths(IndexBefore)
          /\ q \notin DOMAIN exif_cache
          /\ q \in IndexedPaths(IndexBefore)
          /\ {p, q} \subseteq IndexedPaths(call.updated_index)

-----------------------------------------------------------------------------
(* Properties of SpecCopy: Copier.copy_files *)

\* The file name the i-th match of the call is copied to, and its source.
NameOf(i) == PathName(run.matches[i].raw_path)
SourceOf(i) == sources[run.matches[i].raw_path]

\* C25 as stated: whenever the target directory already contains a file with
\* the name of a match's RAW file, the match is counted as skipped and the
\* file there keeps its content.
C25_ExistingDestinationIsSkipped ==
    (run.op = "copy_files" /\ ~run.mkdir_raises)
    => \A i \in 1..Len(run.matches) :
          NameOf(i) \in DOMAIN run.before
          => /\ run.result.results[i] = "skipped"
             /\ target[NameOf(i)] = run.before[NameOf(i)]

\* C25, amended: every file that was in the target directory when copy_files
\* was called is there with the same content when it returns. A match whose
\* RAW file's name was there is not copied: it is counted as skipped when its
\* source file exists, and as failed, with an entry in errors, when the source
\* file is gone or an unexpected exception is raised for it.
C25_ExistingDestinationIsKept ==
    run.op = "copy_files"
    => /\ \A n \in DOMAIN run.before : n \in DOMAIN target /\ target[n] = run.before[n]
       /\ ~run.mkdir_raises
          => \A i \in 1..Len(run.matches) :
                NameOf(i) \in DOMAIN run.before
                => IF SourceOf(i) # NoFile /\ run.envs[i] # "raises"
                   THEN run.result.results[i] = "skipped"
                   ELSE /\ run.result.results[i] = "failed"
                        /\ \E e \in Range(run.result.errors) : e[1] = run.matches[i].raw_path

\* A match was skipped whose source file exists and differs from the file of
\* its name in the target directory, and another one failed whose source file
\* is gone while a file of its name is in the target directory.
C25_Witness ==
    /\ run.op = "copy_files"
    /\ \E i, j \in 1..Len(run.matches) :
          /\ NameOf(i) \in DOMAIN run.before
          /\ SourceOf(i) # NoFile
          /\ SourceOf(i) # run.before[NameOf(i)]
          /\ run.result.results[i] = "skipped"
          /\ NameOf(j) \in DOMAIN run.before
          /\ SourceOf(j) = NoFile
          /\ run.result.results[j] = "failed"

\* The positions of the matches that failed, in order, and the entries of
\* errors they stand for.
FailedPositions ==
    SelectSeq([i \in 1..Len(run.matches) |-> i],
              LAMBDA i : run.result.results[i] = "failed")

\* The name of the i-th match is not in the target directory when the loop
\* reaches it: it was not there before and no earlier match has the name.
FreshName(i) ==
    /\ NameOf(i) \notin DOMAIN run.before
    /\ \A j \in 1..(i - 1) : NameOf(j) # NameOf(i)

\* C26: the three counts of a CopyResult add up to the number of matches.
\* When the target directory is there, every match has one result; a match
\* that fails (source gone, too little space, permission or OS error, an
\* unexpected exception) is counted as failed and has its entry in errors, in
\* order; and a match that meets no failure is still copied, whatever failed
\* before it.
C26_EveryMatchCountedOnce ==
    run.op = "copy_files"
    => LET r == run.result
           n == Len(run.matches)
       IN  /\ r.success + r.skipped + r.failed = n
           /\ run.mkdir_raises
              => /\ r.failed = n
                 /\ r.errors = <<<<TargetDir, MsgMkdir>>>>
                 /\ target = run.before
           /\ ~run.mkdir_raises
              => /\ Len(r.results) = n
                 /\ r.success = Count(r.results, "success")
                 /\ r.skipped = Count(r.results, "skipped")
                 /\ r.failed = Count(r.results, "failed")
                 /\ Len(r.errors) = r.failed
                 /\ \A k \in 1..Len(r.errors) :
                       r.errors[k][1] = run.matches[FailedPositions[k]].raw_path
                 /\ \A i \in 1..n :
                       /\ (SourceOf(i) = NoFile \/ run.envs[i] = "raises")
                          => r.results[i] = "failed"
                       /\ (FreshName(i) /\ run.envs[i] \in {"no_space", "permission", "oserror"})
                          => r.results[i] = "failed"
                       /\ (FreshName(i) /\ SourceOf(i) # NoFile
                              /\ run.envs[i] \in {"ok", "space_check_raises"})
                          => /\ r.results[i] = "success"
                             /\ target[NameOf(i)] = SourceOf(i)

\* The first match of a batch failed and a later one was copied.
C26_Witness ==
    /\ run.op = "copy_files"
    /\ ~run.mkdir_raises
    /\ Len(run.matches) >= 2
    /\ run.result.results[1] = "failed"
    /\ run.result.results[2] = "success"
    /\ Len(run.result.errors) = 1

\* C39: the copies of a batch are made one at a time, each seeing the files
\* the earlier ones wrote: of two matches whose RAW files have the same name,
\* with the name not yet in the target directory, the first is copied, the
\* second is skipped and the file in the target directory has the content of
\* the first.
C39_SecondOfANameIsSkipped ==
    (run.op = "copy_files" /\ ~run.mkdir_raises)
    => \A i, j \in 1..Len(run.matches) :
          (/\ i < j
           /\ NameOf(i) = NameOf(j)
           /\ FreshName(i)
           /\ SourceOf(i) # NoFile /\ run.envs[i] \in {"ok", "space_check_raises"}
           /\ SourceOf(j) # NoFile /\ run.envs[j] # "raises")
          => /\ run.result.results[i] = "success"
             /\ run.result.results[j] = "skipped"
             /\ target[NameOf(i)] = SourceOf(i)

\* A batch has named /src/IMG.CR2 and then /other/IMG.CR2, whose contents
\* differ, with no IMG.CR2 in the target directory: the first was copied and
\* the second skipped.
C39_Witness ==
    /\ run.op = "copy_files"
    /\ Len(run.matches) >= 2
    /\ run.matches[1].raw_path # run.matches[2].raw_path
    /\ NameOf(1) = NameOf(2)
    /\ NameOf(1) \notin DOMAIN run.before
    /\ SourceOf(1) # NoFile
    /\ SourceOf(2) # NoFile
    /\ SourceOf(1) # SourceOf(2)
    /\ run.result.results = <<"success", "skipped">>
    /\ target[NameOf(1)] = SourceOf(1)

-----------------------------------------------------------------------------
(* Properties of SpecManage: MatchManager.find_and_copy_matches *)

\* The index the cache directory held for a directory when the command ran:
\* None when it had no cache file or the file does not load.
StoredIndex(source_dir) ==
    load_directory_index(FileAt(run.files, get_cache_path(source_dir)))

\* The directories list_indexed_directories gave the command.
ListedDirectories == list_indexed_directories(load_global_index(run.manifest_file))

\* No index is usable for the command: none is stored for any directory, or
\* none for the directory the filter names.
NoUsableIndex(source_filter) ==
    IF source_filter = NoneVal
    THEN \A source_dir \in ManagedDirs : StoredIndex(source_dir) = NoneVal
    ELSE StoredIndex(PathOfStr(source_filter.str)) = NoneVal

\* C21: a match command that runs while no usable index exists ends with the
\* index warning, which shows the index command to run and, when other
\* directories are indexed, the directory that lacks an index; it matches
\* nothing and copies nothing.
C21_MissingIndexIsReported ==
    (run.op = "match" /\ NoUsableIndex(run.source_filter))
    => /\ run.done.ended = "index_warning"
       /\ run.done.warning.commands # <<>>
       /\ (run.source_filter # NoneVal /\ ListedDirectories # <<>>)
          => run.done.warning.directories = <<PathOfStr(run.source_filter.str)>>
       /\ run.done.matches = <<>>
       /\ run.done.target = run.before

\* C22: when the filter names a listed directory, every match is a record of
\* the index stored for that directory, and every file the command copied is
\* the file of such a record.
C22_OnlyTheFilteredDirectoryMatches ==
    (run.op = "match" /\ run.source_filter # NoneVal)
    => LET D == StoredIndex(PathOfStr(run.source_filter.str))
           allowed == IF D = NoneVal THEN {} ELSE IndexedPaths(D)
       IN  /\ \A m \in Range(run.done.matches) : m.raw_path \in allowed
           /\ \A n \in DOMAIN target \ DOMAIN run.before :
                 \E p \in allowed : PathName(p) = n /\ target[n] = run.sources[p]

\* A filtered match command copied a file of the named directory while the
\* directory indexed last held a RAW file of the same basename and timestamp
\* that is indexed under that directory only.
C22_Witness ==
    /\ run.op = "match"
    /\ run.source_filter = JsonStr("/src")
    /\ run.done.ended = "complete"
    /\ "IMG.CR2" \in DOMAIN target \ DOMAIN run.before
    /\ StoredIndex(Path("/other")) # NoneVal
    /\ Path("/other/IMG.CR2") \in IndexedPaths(StoredIndex(Path("/other")))
    /\ Path("/other/IMG.CR2") \notin IndexedPaths(StoredIndex(Path("/src")))
    /\ ListedDirectories[1].path = Path("/other")
    /\ run.sources[Path("/other/IMG.CR2")] = run.sources[Path("/src/IMG.CR2")]

\* The scenario of C27: /src holds IMG.CR2 and ZZZ.CR2, both taken at DT1, and
\* is the one directory indexed, with the index of these files; the target
\* directory held IMG.JPG (DT1), ZZZ.jpg (DT2) and Dsc.JPG, of whose basename
\* there is no RAW file.
EndToEndScenario ==
    /\ run.op = "match"
    /\ run.source_filter \in {NoneVal, JsonStr("/src")}
    /\ run.before = TargetOf({Path("/tgt/IMG.JPG"), Path("/tgt/ZZZ.jpg"), Path("/tgt/Dsc.JPG")})
    /\ run.sources[Path("/src/IMG.CR2")] = FirstVersion
    /\ run.sources[Path("/src/ZZZ.CR2")] = FirstVersion
    /\ Len(ListedDirectories) = 1
    /\ ListedDirectories[1].path = Path("/src")
    /\ StoredIndex(Path("/src")) # NoneVal
    /\ get_all_files(StoredIndex(Path("/src")))
          = BuiltInfos(Path("/src"), run.sources)

\* C27: in the scenario the command matches IMG.JPG with IMG.CR2 by basename
\* and timestamp and nothing else, copies that file, and the target directory
\* then holds the three JPEG files and IMG.CR2.
C27_EndToEnd ==
    EndToEndScenario
    => /\ run.done.ended = "complete"
       /\ run.done.matches =
             <<[jpeg_path |-> Path("/tgt/IMG.JPG"), raw_path |-> Path("/src/IMG.CR2"),
                match_method |-> "basename_and_datetime"]>>
       /\ run.done.copy_result.success = 1
       /\ run.done.copy_result.skipped = 0
       /\ run.done.copy_result.failed = 0
       /\ DOMAIN target = {"IMG.JPG", "ZZZ.jpg", "Dsc.JPG", "IMG.CR2"}
       /\ target["IMG.CR2"] = run.sources[Path("/src/IMG.CR2")]
       /\ \A n \in DOMAIN run.before : target[n] = run.before[n]

C27_Witness == EndToEndScenario /\ "IMG.CR2" \in DOMAIN target

-----------------------------------------------------------------------------
(* Properties of the parallel phase, checked under SpecBuild *)

\* A dict of lists as Python compares it: each key with its list, whatever
\* order the keys were inserted in.
DictItems(d) == {<<d[i].key, d[i].infos>> : i \in 1..Len(d)}

\* The index the step gives when the results are folded in the order the
\* files were submitted in.
SubmissionOrderIndex ==
    IF UseDifferential(call.existing_index, call.force_rebuild)
    THEN LET plan == update_plan(call.existing_index, disk, call.recursive)
         IN  AddAll(plan.index,
                    process_files(exif_cache, plan.files_to_process, disk).infos)
    ELSE AddAll(EmptyIndex,
                process_files(exif_cache, scan_raw_files(disk, call.recursive),
                              disk).infos)

\* C31: the index a full build or a differential update produces has the
\* same by_basename and by_datetime whatever order the workers complete in:
\* they are the maps the fold in submission order gives.
C31_FoldOrderIsImmaterial ==
    [][(call.pc = "loaded" /\ call'.pc = "built")
       => /\ DictItems(call'.updated_index.by_basename)
               = DictItems(SubmissionOrderIndex.by_basename)
          /\ DictItems(call'.updated_index.by_datetime)
               = DictItems(SubmissionOrderIndex.by_datetime)]_vars

\* C32: the RAW file matched to each JPEG does not depend on the order the
\* workers finished in during the build of the index: it is the one matched
\* against the index folded in submission order.
C32_MatchIgnoresCompletionOrder ==
    [][(call.pc = "loaded" /\ call'.pc = "built")
       => \A jpeg_path \in JpegPaths :
             find_matches(call'.updated_index, <<jpeg_path>>)
               = find_matches(SubmissionOrderIndex, <<jpeg_path>>)]_vars

-----------------------------------------------------------------------------
(* Properties of repeated builds, checked under SpecBuild *)

\* The indexes of the state: the one loaded, the one built, the one returned
\* and the one in the cache file.
IndexesOfBuild ==
    {call.existing_index, call.updated_index, call.result,
     load_directory_index(cache_file)} \ {NoneVal}

\* C33: starting from no cache, after any sequence of full and differential
\* builds with files added, removed and resized in between, every file path
\* occurs in at most one record of the index.
C33_OneRecordPerPath ==
    \A idx \in IndexesOfBuild : \A p \in SrcPaths : RecordsOfPath(idx, p) <= 1

\* A second, differential build has returned an index that holds a file
\* written since the first build.
C33_Witness ==
    /\ call.pc = "returned"
    /\ call.mode = "diff"
    /\ clock = 2
    /\ \E p \in SrcPaths :
          /\ RecordsOfPath(call.result, p) = 1
          /\ disk[p] # NoFile
          /\ disk[p] # FirstVersion

\* C34: when a file's size and capture timestamp have both changed since the
\* index was built, the record a differential update writes for it carries
\* the timestamp that is on disk now.
C34_UpdateReadsTimestampAnew ==
    [][DifferentialStep
       => \A p \in ResizedFiles(call.existing_index) :
             ExistingInfo(call.existing_index, p).capture_datetime
                 # TimestampRead(disk[p])
             => \A info \in Range(RecordsAt(call'.updated_index, p)) :
                   info.capture_datetime = TimestampRead(disk[p])]_vars

-----------------------------------------------------------------------------
(* Properties of the cache directory, checked under SpecStore *)

\* C35: after any sequence of saves, removals and clears, failing and
\* interrupted ones included, every directory the manifest lists has a cache
\* file that load_directory_index loads.
C35_ListedDirectoriesLoad ==
    LET directories == list_indexed_directories(load_global_index(manifest))
    IN  \A i \in 1..Len(directories) :
           load_directory_index(
               FileAt(store, get_cache_path(directories[i].path))) # NoneVal

-----------------------------------------------------------------------------
(* Properties of concurrent saves, checked under SpecConcurrent *)

\* C36: once two index builds for two different source directories that ran
\* concurrently against one cache directory have both finished, the manifest
\* has an entry for each of the two directories.
C36_BothEntriesSurvive ==
    (\A p \in Procs : saving[p].pc = "done")
    => \A p \in Procs :
          Str(resolve(DirOf(p))) \in DOMAIN load_global_index(manifest)

-----------------------------------------------------------------------------
(* Properties of persistence and matching, checked under Spec *)

\* The paths of the records of a basename, in the order of its list.
PathsUnder(idx, basename) ==
    LET infos == find_by_basename(idx, basename)
    IN  [i \in 1..Len(infos) |-> infos[i].path]

\* C37: an index that is written with to_dict and read back with from_dict
\* has, for every basename, its records in the same relative order, and the
\* matcher chooses the same RAW file for every JPEG before and after.
C37_PersistenceKeepsOrder ==
    [][lastOp'.op = "from_dict"
       => /\ \A basename \in {"img", "dsc"} :
                PathsUnder(index', basename) = PathsUnder(index, basename)
          /\ \A jpeg_path \in JpegPaths :
                find_matches(index', <<jpeg_path>>) = find_matches(index, <<jpeg_path>>)]_vars

\* An index with two files under one basename has been written and read back.
C37_Witness ==
    /\ lastOp.op = "from_dict"
    /\ Len(PathsUnder(index, "img")) >= 2
    /\ PathsUnder(index, "img")[1] # PathsUnder(index, "img")[2]

-----------------------------------------------------------------------------
(* Properties of the source filter, checked under SpecManage *)

\* C38: a source filter that names an indexed directory by another path of
\* the same directory (here with a trailing slash) selects the index of that
\* directory: the command does not report it as not indexed and matches
\* against the records stored for it.
C38_EquivalentFilterSelects ==
    (run.op = "match" /\ run.source_filter # NoneVal)
    => LET source_dir == resolve(PathOfStr(run.source_filter.str))
       IN  (/\ \E i \in 1..Len(ListedDirectories) : ListedDirectories[i].path = source_dir
            /\ StoredIndex(source_dir) # NoneVal)
           => /\ run.done.ended # "index_warning"
              /\ get_all_files(run.done.global_index)
                   = get_all_files(StoredIndex(source_dir))

-----------------------------------------------------------------------------
(* Properties of the match command as a reader, checked under SpecManage *)

=========================================================================
